---- MODULE Spec2Model ----
(***************************************************************************)
(* Model of the batched Firehose delivery stream of api-golang-base        *)
(* (internal/infra/server/gn_logger/firehose_log_stream.go): producers     *)
(* calling Write, the listenRecordStream goroutine, the startWatcher       *)
(* ticker goroutine, the goroutines running send, and one caller of Close. *)
(* Second part: the Logger of my_logger (level names, log context).         *)
(***************************************************************************)
EXTENDS Integers, Sequences, FiniteSets, TLC

\* ------------------------------------------------------------ constants

\* Firehose limits (firehose_log_stream.go:18-19).
MAX_LOG_BYTE_LENGTH == 1024000
MAX_RECORDS_BYTE_LENGTH == 4194304

\* make(chan types.Record, 1)
RecordStreamCap == 1

\* ---------------------------------------------------------------- bounds

\* Number of concurrent producers calling Write.
NumProducers == 1
\* Number of in-limit Writes made (record ids are 1..MaxWrites).
MaxWrites == 4
\* Number of send goroutines that may exist at once.
MaxSends == 2
\* Value of the MaxBatchSize option of the running stream.
SmallBatch == 2
\* Value of the MaxBatchSize option when send is exercised on a held buffer.
LargeBatch == 5
\* Largest buffer on which send is exercised directly.
MaxHeld == 6

Producers == 1..NumProducers
SendIds == 1..MaxSends

\* Goroutine identities.
Free == <<"free">>
Closer == <<"closer">>
Sender(i) == <<"send", i>>
Senders == {Sender(i) : i \in SendIds}
\* A goroutine that calls send directly (sent := stream.send()).
Tester == <<"test">>
\* Everything that can execute send: the spawned goroutines, Close and a
\* direct caller.
Callers == Senders \cup {Closer, Tester}

\* Payload lengths handed to Write: the largest accepted and the smallest
\* rejected length.
PayloadLens == {MAX_LOG_BYTE_LENGTH, MAX_LOG_BYTE_LENGTH + 1}
\* Lengths of the records of a held buffer (all within the record limit).
HeldLens == {1, MAX_LOG_BYTE_LENGTH}

NoRecord == [id |-> 0, len |-> 0]

\* Record ids: those of the Writes and those of a held buffer.
MaxId == IF MaxWrites >= MaxHeld THEN MaxWrites ELSE MaxHeld
RecordIds == 1..MaxId

\* Contents of a payload.
Bytes == {"x", "y"}
\* The array behind the slice logBytes of producer p.
Buf(p) == <<"logBytes", p>>
\* The array slices.Clone allocates for the record with this id.
Rec(id) == <<"clone", id>>
Nil == <<"nil">>
Arrays == {Buf(p) : p \in Producers} \cup {Rec(id) : id \in RecordIds}

VARIABLES
    MaxBatchSize,   \* *f.options.MaxBatchSize
    recordsBuff,    \* f.recordsBuff: sequence of records [id, len]
    recordStream,   \* f.recordStream: contents of the buffered channel
    streamClosed,   \* close(f.recordStream) has run
    tickerStopped,  \* f.ticker.Stop() has run
    mu,             \* f.mu: Free or the goroutine holding it
    writePc,        \* per producer: "idle" | "chsend" | "panic"
    writeRec,       \* per producer: the record Write is handing over
    writeRet,       \* per producer: (n, err) of its last returned Write
    nextId,         \* id of the next record the channel takes
    listenPc,       \* listenRecordStream: "recv" | "lock" | "done"
    listenRec,      \* the record r of the range loop
    sendPc,         \* per caller of send: "idle" | "lock" | "put" | "ret"
    records,        \* per caller of send: the batch passed to PutRecordBatch
    response,       \* per caller of send: what PutRecordBatch returned
    sent,           \* per caller of send: the value send returns
    closePc,        \* Close: "idle" | "lock" | "stop" | "close" | "loop" |
                    \*        "send" | "done"
    closeRet,       \* what Close returned ("none" before it returns)
    sinkErrored,    \* some PutRecordBatch call returned a transport error
    sinkMarked,     \* some PutRecordBatch response marked a record as failed
    delivered,      \* ids of the records the sink reported delivered
    accepted,       \* ids of the in-limit records whose Write returned
    preClose,       \* accepted, as it was when Close was invoked
    trackOrder,     \* history switch: the order bookkeeping below is kept
    began,          \* per caller of send: number of the first in-limit Write
                    \* called after this send pulled its batch (0: none)
    after,          \* per record id: began of the first send that put the
                    \* record back (0: not put back, or delivered since;
                    \* negated once the record is put back again)
    logger,         \* Logger.logger: the attribute groups of the base logger
    contextLogger,  \* Logger.contextLogger: attribute groups, in With order
    ctxFence,       \* Logger.ctxFence: Free or the goroutine holding it
    ctxPc,          \* per goroutine: position in AddLogContext/ClearLogContext
    ctxArg,         \* per goroutine: the attrs of its AddLogContext call
    ctxTmp,         \* per goroutine: l.contextLogger.With(attrs...) evaluated
    added,          \* attribute groups stored since the last clear, in order
    gotBase,        \* what the last GetBaseLogger call returned
    minLevel,       \* slog.HandlerOptions.Level of the handler
    lastLog,        \* the last Log call: level name, result, record, label
    spawnedBy,      \* per send goroutine: the go statement that started it
                    \* ("none" | "ticker" | "capacity")
    appenders,      \* my_logger Write: the records of the goroutines
                    \* go func(r types.Record) that have not appended yet
    mem,            \* the byte arrays: contents of the callers' slices and
                    \* of the arrays slices.Clone allocated
    Data,           \* per record id: the array the Data field points to
    wrote,          \* per record id: the bytes its Write was called with
    mainPc,         \* main and GracefulShutdown: "wait" | "store" | "sleep" |
                    \* "shutdown" | "stopper" | "hard" | "return" | "close" |
                    \* "closing" | "exit"
    isShuttingDown, \* the atomic.Bool of main
    ongoingCtx,     \* the base context of the requests: "live" | "done"
    shutdownErr,    \* s.Shutdown(shutdownCtx) returned an error
    reqPc,          \* per request: "idle" | "serving" | "returned"
    afterPc,        \* per request, the context.AfterFunc callback: "none" |
                    \* "armed" | "running" | "done"
    outStreamClosed, \* main has called Close on loggerOutputStream
    finishedAt      \* per request: the stream ("open" | "closed") when its
                    \* "HTTP Request finished" record was written ("none")

\* The variables of the delivery stream.
streamVars == <<MaxBatchSize, recordsBuff, recordStream, streamClosed,
                tickerStopped, mu, writePc, writeRec, writeRet, nextId,
                listenPc, listenRec, sendPc, records, response, sent, closePc,
                closeRet, sinkErrored, sinkMarked, delivered, accepted,
                preClose>>

\* The history variables of the delivery order.
orderVars == <<trackOrder, began, after>>

\* The variables of the Logger.
loggerVars == <<logger, contextLogger, ctxFence, ctxPc, ctxArg, ctxTmp, added,
                gotBase, minLevel, lastLog>>

\* The goroutines started by a go statement.
goVars == <<spawnedBy, appenders>>

\* The payload bytes.
byteVars == <<mem, Data, wrote>>

\* The variables of main, GracefulShutdown and the request logger.
appVars == <<mainPc, isShuttingDown, ongoingCtx, shutdownErr, reqPc, afterPc,
             outStreamClosed, finishedAt>>

vars == <<streamVars, orderVars, loggerVars, goVars, byteVars, appVars>>

\* ---------------------------------------------------------------- helpers

\* Some PutRecordBatch call did not take every record of its batch.
sinkRefused == sinkErrored \/ sinkMarked

Min(a, b) == IF a <= b THEN a ELSE b

Ids(s) == {s[i].id : i \in 1..Len(s)}

RECURSIVE ByteLength(_)
\* for _, v := range records { recordsByteLength += len(v.Data) }
ByteLength(s) == IF s = <<>> THEN 0 ELSE s[1].len + ByteLength(Tail(s))


\* slices.Clone(logBytes): a new array dst with the contents of src.
Clone(m, src, dst) == [m EXCEPT ![dst] = m[src]]

\* The bytes of record r that a reader of r.Data sees.
Payload(r) == mem[Data[r.id]]

\* --------------------------------------------------------- send, pure parts

\* Mutant of Candidate: the newest records of the buffer are taken.
CandidateNewest(buff, max) ==
    IF Len(buff) >= max
    THEN SubSeq(buff, Len(buff) - max + 1, Len(buff))
    ELSE buff

\* Mutant of Candidate: the count limit is ignored.
CandidateWholeBuffer(buff, max) == buff

\* if len(f.recordsBuff) >= *f.options.MaxBatchSize { records = f.recordsBuff[:max] }
\* else { records = f.recordsBuff[:] }
Candidate(buff, max) ==
    IF Len(buff) >= max THEN SubSeq(buff, 1, max) ELSE buff

\* Mutant of Remainder: the batch is not taken off the buffer.
RemainderKeepsBatch(buff, cand) == buff

\* f.recordsBuff = f.recordsBuff[len(records):]
Remainder(buff, cand) == SubSeq(buff, Len(cand) + 1, Len(buff))

RECURSIVE TrimLoopNoDecrement(_, _)
\* Mutant of TrimLoop: the last record is cut off and not put back, and the
\* running total keeps its value.
TrimLoopNoDecrement(recs, byteLength) ==
    IF byteLength > MAX_RECORDS_BYTE_LENGTH
    THEN IF Len(recs) = 0
         THEN [returned |-> TRUE, records |-> recs]
         ELSE TrimLoopNoDecrement(SubSeq(recs, 1, Len(recs) - 1), byteLength)
    ELSE [returned |-> FALSE, records |-> recs]

RECURSIVE TrimLoop(_, _)
\* for recordsByteLength > MAX_RECORDS_BYTE_LENGTH { ... }: the last record is
\* cut off records and slices.Insert puts it back at index 0 of records; the
\* running total is decremented by its length.
TrimLoop(recs, byteLength) ==
    IF byteLength > MAX_RECORDS_BYTE_LENGTH
    THEN IF Len(recs) = 0
         THEN [returned |-> TRUE, records |-> recs]
         ELSE LET lastRecord == recs[Len(recs)]
              IN TrimLoop(<<lastRecord>> \o SubSeq(recs, 1, Len(recs) - 1),
                          byteLength - lastRecord.len)
    ELSE [returned |-> FALSE, records |-> recs]

RECURSIVE TrimTurnsNoDecrement(_, _, _)
\* Mutant of TrimTurns: the running total is not decremented.
TrimTurnsNoDecrement(recs, byteLength, most) ==
    IF byteLength > MAX_RECORDS_BYTE_LENGTH /\ Len(recs) # 0 /\ most >= 0
    THEN LET lastRecord == recs[Len(recs)]
         IN 1 + TrimTurnsNoDecrement(
                    <<lastRecord>> \o SubSeq(recs, 1, Len(recs) - 1),
                    byteLength, most - 1)
    ELSE 0

RECURSIVE TrimTurns(_, _, _)
\* The number of turns of the loop 'for recordsByteLength >
\* MAX_RECORDS_BYTE_LENGTH { ... }' on records and its running total; the
\* count stops at most + 1.
TrimTurns(recs, byteLength, most) ==
    IF byteLength > MAX_RECORDS_BYTE_LENGTH /\ Len(recs) # 0 /\ most >= 0
    THEN LET lastRecord == recs[Len(recs)]
         IN 1 + TrimTurns(<<lastRecord>> \o SubSeq(recs, 1, Len(recs) - 1),
                          byteLength - lastRecord.len, most - 1)
    ELSE 0

\* The outcomes of one PutRecordBatch call on a batch: a transport error, or
\* a response whose RequestResponses marks the failed entries (TRUE: ErrorCode
\* is set) and whose FailedPutCount counts them.
Response(err, marks) ==
    [err |-> err,
     RequestResponses |-> marks,
     FailedPutCount |-> Cardinality({i \in DOMAIN marks : marks[i]})]

PutRecordBatch(batch) ==
    {Response(TRUE, <<>>)}
    \cup {Response(FALSE, m) : m \in [1..Len(batch) -> BOOLEAN]}

NoResponse == Response(FALSE, <<>>)

\* The sink did not take every record of the batch.
Refused(resp) == resp.err \/ resp.FailedPutCount > 0

RECURSIVE FailedFromUnmarked(_, _, _)
\* Mutant of FailedFrom: the test of ErrorCode is inverted.
FailedFromUnmarked(recs, marks, i) ==
    IF i > Len(marks) THEN <<>>
    ELSE (IF marks[i] THEN <<>> ELSE <<recs[i]>>)
             \o FailedFromUnmarked(recs, marks, i + 1)

RECURSIVE FailedFrom(_, _, _)
\* for i, r := range response.RequestResponses {
\*     if r.ErrorCode != nil { failedRecords = append(failedRecords, records[i]) } }
FailedFrom(recs, marks, i) ==
    IF i > Len(marks) THEN <<>>
    ELSE (IF marks[i] THEN <<recs[i]>> ELSE <<>>) \o FailedFrom(recs, marks, i + 1)

\* Mutant of Requeued: nothing is put back after a transport error.
RequeuedNothingOnError(recs, resp) ==
    IF resp.err THEN <<>>
    ELSE IF resp.FailedPutCount = 0 THEN <<>>
    ELSE FailedFrom(recs, resp.RequestResponses, 1)

\* Mutant of Requeued: after a transport error the first record is not put
\* back.
RequeuedTailOnError(recs, resp) ==
    IF resp.err THEN Tail(recs)
    ELSE IF resp.FailedPutCount = 0 THEN <<>>
    ELSE FailedFrom(recs, resp.RequestResponses, 1)

\* What send puts back into the buffer after the call.
Requeued(recs, resp) ==
    IF resp.err THEN recs
    ELSE IF resp.FailedPutCount = 0 THEN <<>>
    ELSE FailedFrom(recs, resp.RequestResponses, 1)

\* f.recordsBuff = append(f.recordsBuff, records...) and
\* f.recordsBuff = append(f.recordsBuff, failedRecords...)
Requeue(buff, back) == buff \o back

\* The value send returns after the call.
SendResult(recs, resp) ==
    IF resp.err THEN 0
    ELSE IF resp.FailedPutCount = 0 THEN Len(recs)
    ELSE Len(recs) - resp.FailedPutCount

\* The records of a batch the sink reported delivered.
Delivered(recs, resp) ==
    IF resp.err THEN {}
    ELSE {recs[i].id : i \in {j \in 1..Len(recs) : ~resp.RequestResponses[j]}}


\* ------------------------------------------------------------ go f.send()

IdleSenders == {i \in SendIds : sendPc[Sender(i)] = "idle"}

\* A send goroutine can be started (the model holds at most MaxSends of them).
CanSpawn == IdleSenders # {}

\* go f.send(): the new goroutine is about to call f.mu.Lock().
GoSend ==
    LET i == CHOOSE j \in IdleSenders : \A k \in IdleSenders : j <= k
    IN [sendPc EXCEPT ![Sender(i)] = "lock"]

\* The go statement that started the new goroutine: the one of startWatcher
\* ("ticker") or the one of the capacity check ("capacity").
Spawned(by) ==
    LET i == CHOOSE j \in IdleSenders : \A k \in IdleSenders : j <= k
    IN [spawnedBy EXCEPT ![Sender(i)] = by]

\* ----------------------------------------------------------------- Write

\* The in-limit Writes that have started (the model makes MaxWrites of them).
Written == nextId - 1 + Cardinality({p \in Producers : writePc[p] = "chsend"})

\* Mutant of WriteCall: the length check is left out.
WriteCallNoLimit(p, l) ==
    /\ writePc[p] = "idle"
    /\ Written < MaxWrites
    /\ writePc' = [writePc EXCEPT ![p] = "chsend"]
    /\ writeRec' = [writeRec EXCEPT ![p] = [id |-> 0, len |-> l]]
    /\ writeRet' = [writeRet EXCEPT ![p] = [n |-> 0, err |-> "none"]]
    /\ UNCHANGED orderVars
    /\ UNCHANGED loggerVars
    /\ UNCHANGED appVars
    /\ UNCHANGED <<goVars, byteVars>>
    /\ UNCHANGED <<MaxBatchSize, recordsBuff, recordStream, streamClosed,
                   tickerStopped, mu, nextId, listenPc, listenRec, sendPc,
                   records, response, sent, closePc, closeRet, sinkErrored,
                   sinkMarked, delivered, accepted, preClose>>

\* Write(logBytes) up to the channel send: an oversized payload is reported
\* and Write returns len(logBytes), nil at once.
WriteCall(p, l) ==
    /\ writePc[p] = "idle"
    /\ IF l > MAX_LOG_BYTE_LENGTH
       THEN /\ writeRet' = [writeRet EXCEPT ![p] = [n |-> l, err |-> "nil"]]
            /\ UNCHANGED <<writePc, writeRec>>
       ELSE /\ Written < MaxWrites
            /\ writePc' = [writePc EXCEPT ![p] = "chsend"]
            /\ writeRec' = [writeRec EXCEPT ![p] = [id |-> 0, len |-> l]]
            /\ writeRet' = [writeRet EXCEPT ![p] = [n |-> 0, err |-> "none"]]
    /\ UNCHANGED orderVars
    /\ UNCHANGED loggerVars
    /\ UNCHANGED appVars
    /\ UNCHANGED <<goVars, byteVars>>
    /\ UNCHANGED <<MaxBatchSize, recordsBuff, recordStream, streamClosed,
                   tickerStopped, mu, nextId, listenPc, listenRec, sendPc,
                   records, response, sent, closePc, closeRet, sinkErrored,
                   sinkMarked, delivered, accepted, preClose>>

\* Mutant of WriteSend: Write reports 0 bytes for a record it handed over.
WriteSendReportsZero(p) ==
    /\ writePc[p] = "chsend"
    /\ IF streamClosed
       THEN /\ writePc' = [writePc EXCEPT ![p] = "panic"]
            /\ UNCHANGED <<recordStream, writeRet, accepted, nextId>>
            /\ UNCHANGED byteVars
       ELSE /\ Len(recordStream) < RecordStreamCap
            /\ recordStream' =
                  Append(recordStream, [id |-> nextId, len |-> writeRec[p].len])
            /\ nextId' = nextId + 1
            /\ writePc' = [writePc EXCEPT ![p] = "idle"]
            /\ writeRet' = [writeRet EXCEPT ![p] = [n |-> 0, err |-> "nil"]]
            /\ accepted' = accepted \cup {nextId}
            /\ mem' = Clone(mem, Buf(p), Rec(nextId))
            /\ Data' = [Data EXCEPT ![nextId] = Rec(nextId)]
            /\ wrote' = [wrote EXCEPT ![nextId] = mem[Buf(p)]]
    /\ writeRec' = [writeRec EXCEPT ![p] = NoRecord]
    /\ UNCHANGED orderVars
    /\ UNCHANGED loggerVars
    /\ UNCHANGED appVars
    /\ UNCHANGED goVars
    /\ UNCHANGED <<MaxBatchSize, recordsBuff, streamClosed, tickerStopped, mu,
                   listenPc, listenRec, sendPc, records, response, sent,
                   closePc, closeRet, sinkErrored, sinkMarked, delivered,
                   preClose>>

\* Mutant of WriteSend: a refused delivery is returned to the producer.
WriteSendSurfacesError(p) ==
    /\ writePc[p] = "chsend"
    /\ IF streamClosed
       THEN /\ writePc' = [writePc EXCEPT ![p] = "panic"]
            /\ UNCHANGED <<recordStream, writeRet, accepted, nextId>>
            /\ UNCHANGED byteVars
       ELSE /\ Len(recordStream) < RecordStreamCap
            /\ recordStream' =
                  Append(recordStream, [id |-> nextId, len |-> writeRec[p].len])
            /\ nextId' = nextId + 1
            /\ writePc' = [writePc EXCEPT ![p] = "idle"]
            /\ writeRet' = [writeRet EXCEPT
                              ![p] = [n |-> writeRec[p].len,
                                      err |-> IF sinkRefused THEN "error"
                                              ELSE "nil"]]
            /\ accepted' = accepted \cup {nextId}
            /\ mem' = Clone(mem, Buf(p), Rec(nextId))
            /\ Data' = [Data EXCEPT ![nextId] = Rec(nextId)]
            /\ wrote' = [wrote EXCEPT ![nextId] = mem[Buf(p)]]
    /\ writeRec' = [writeRec EXCEPT ![p] = NoRecord]
    /\ UNCHANGED orderVars
    /\ UNCHANGED loggerVars
    /\ UNCHANGED appVars
    /\ UNCHANGED goVars
    /\ UNCHANGED <<MaxBatchSize, recordsBuff, streamClosed, tickerStopped, mu,
                   listenPc, listenRec, sendPc, records, response, sent,
                   closePc, closeRet, sinkErrored, sinkMarked, delivered,
                   preClose>>

\* Mutant of WriteSend: on a closed channel the record is dropped and Write
\* returns normally.
WriteSendDropsWhenClosed(p) ==
    /\ writePc[p] = "chsend"
    /\ IF streamClosed
       THEN /\ writePc' = [writePc EXCEPT ![p] = "idle"]
            /\ writeRet' = [writeRet EXCEPT
                              ![p] = [n |-> writeRec[p].len, err |-> "nil"]]
            /\ UNCHANGED <<recordStream, accepted, nextId>>
            /\ UNCHANGED byteVars
       ELSE /\ Len(recordStream) < RecordStreamCap
            /\ recordStream' =
                  Append(recordStream, [id |-> nextId, len |-> writeRec[p].len])
            /\ nextId' = nextId + 1
            /\ writePc' = [writePc EXCEPT ![p] = "idle"]
            /\ writeRet' = [writeRet EXCEPT
                              ![p] = [n |-> writeRec[p].len, err |-> "nil"]]
            /\ accepted' = accepted \cup {nextId}
            /\ mem' = Clone(mem, Buf(p), Rec(nextId))
            /\ Data' = [Data EXCEPT ![nextId] = Rec(nextId)]
            /\ wrote' = [wrote EXCEPT ![nextId] = mem[Buf(p)]]
    /\ writeRec' = [writeRec EXCEPT ![p] = NoRecord]
    /\ UNCHANGED orderVars
    /\ UNCHANGED loggerVars
    /\ UNCHANGED appVars
    /\ UNCHANGED goVars
    /\ UNCHANGED <<MaxBatchSize, recordsBuff, streamClosed, tickerStopped, mu,
                   listenPc, listenRec, sendPc, records, response, sent,
                   closePc, closeRet, sinkErrored, sinkMarked, delivered,
                   preClose>>

\* Mutant of WriteSend: the record keeps the caller's slice, not a clone.
WriteSendNoClone(p) ==
    /\ writePc[p] = "chsend"
    /\ IF streamClosed
       THEN /\ writePc' = [writePc EXCEPT ![p] = "panic"]
            /\ UNCHANGED <<recordStream, writeRet, accepted, nextId>>
            /\ UNCHANGED byteVars
       ELSE /\ Len(recordStream) < RecordStreamCap
            /\ recordStream' =
                  Append(recordStream, [id |-> nextId, len |-> writeRec[p].len])
            /\ nextId' = nextId + 1
            /\ writePc' = [writePc EXCEPT ![p] = "idle"]
            /\ writeRet' = [writeRet EXCEPT
                              ![p] = [n |-> writeRec[p].len, err |-> "nil"]]
            /\ accepted' = accepted \cup {nextId}
            /\ mem' = mem
            /\ Data' = [Data EXCEPT ![nextId] = Buf(p)]
            /\ wrote' = [wrote EXCEPT ![nextId] = mem[Buf(p)]]
    /\ writeRec' = [writeRec EXCEPT ![p] = NoRecord]
    /\ UNCHANGED orderVars
    /\ UNCHANGED loggerVars
    /\ UNCHANGED appVars
    /\ UNCHANGED goVars
    /\ UNCHANGED <<MaxBatchSize, recordsBuff, streamClosed, tickerStopped, mu,
                   listenPc, listenRec, sendPc, records, response, sent,
                   closePc, closeRet, sinkErrored, sinkMarked, delivered,
                   preClose>>

\* f.recordStream <- types.Record{...}; return len(logBytes), nil.
\* The send blocks while the channel is full and panics on a closed channel.
\* A record gets its id when the channel takes it.
WriteSend(p) ==
    /\ writePc[p] = "chsend"
    /\ IF streamClosed
       THEN /\ writePc' = [writePc EXCEPT ![p] = "panic"]
            /\ UNCHANGED <<recordStream, writeRet, accepted, nextId>>
            /\ UNCHANGED byteVars
       ELSE /\ Len(recordStream) < RecordStreamCap
            /\ recordStream' =
                  Append(recordStream, [id |-> nextId, len |-> writeRec[p].len])
            /\ nextId' = nextId + 1
            /\ writePc' = [writePc EXCEPT ![p] = "idle"]
            /\ writeRet' = [writeRet EXCEPT
                              ![p] = [n |-> writeRec[p].len, err |-> "nil"]]
            /\ accepted' = accepted \cup {nextId}
            /\ mem' = Clone(mem, Buf(p), Rec(nextId))
            /\ Data' = [Data EXCEPT ![nextId] = Rec(nextId)]
            /\ wrote' = [wrote EXCEPT ![nextId] = mem[Buf(p)]]
    /\ writeRec' = [writeRec EXCEPT ![p] = NoRecord]
    /\ UNCHANGED orderVars
    /\ UNCHANGED loggerVars
    /\ UNCHANGED appVars
    /\ UNCHANGED goVars
    /\ UNCHANGED <<MaxBatchSize, recordsBuff, streamClosed, tickerStopped, mu,
                   listenPc, listenRec, sendPc, records, response, sent,
                   closePc, closeRet, sinkErrored, sinkMarked, delivered,
                   preClose>>

\* The caller of Write overwrites its slice with other bytes (reuses it for
\* the next payload) once its Write has returned.
MutateCaller(p, b) ==
    /\ writePc[p] = "idle"
    /\ b # mem[Buf(p)]
    /\ mem' = [mem EXCEPT ![Buf(p)] = b]
    /\ UNCHANGED <<Data, wrote>>
    /\ UNCHANGED <<streamVars, orderVars, loggerVars, goVars, appVars>>

\* ------------------------------------------------- delivery order history

\* The number of the first in-limit Write that is called after now.
FlushMark == Written + 1

\* The send of g has the buffer and pulls its batch: the Writes numbered from
\* FlushMark on are called strictly after this flush began.
Began(g) == IF trackOrder THEN [began EXCEPT ![g] = FlushMark] ELSE began

\* The send of g has returned.
Ended(g) == IF trackOrder THEN [began EXCEPT ![g] = 0] ELSE began

\* The send of g got resp for its batch recs: a delivered record is settled, a
\* record put back for the first time is marked with the beginning of this
\* flush, a record put back again keeps the mark of its first failed flush,
\* negated.
PutBackMarks(g, recs, resp) ==
    IF trackOrder
    THEN [a \in DOMAIN after |->
            IF a \in Delivered(recs, resp) THEN 0
            ELSE IF a \in Ids(Requeued(recs, resp))
                 THEN (IF after[a] = 0 THEN began[g]
                       ELSE IF after[a] > 0 THEN 0 - after[a] ELSE after[a])
                 ELSE after[a]]
    ELSE after

\* ---------------------------------------------------- listenRecordStream

\* for r := range f.recordStream: takes the next record, or ends once the
\* channel is closed and empty.
ListenRecv ==
    /\ listenPc = "recv"
    /\ IF recordStream # <<>>
       THEN /\ listenRec' = Head(recordStream)
            /\ recordStream' = Tail(recordStream)
            /\ listenPc' = "lock"
       ELSE /\ streamClosed
            /\ listenPc' = "done"
            /\ UNCHANGED <<listenRec, recordStream>>
    /\ UNCHANGED orderVars
    /\ UNCHANGED loggerVars
    /\ UNCHANGED appVars
    /\ UNCHANGED <<goVars, byteVars>>
    /\ UNCHANGED <<MaxBatchSize, recordsBuff, streamClosed, tickerStopped, mu,
                   writePc, writeRec, writeRet, nextId, sendPc, records,
                   response, sent, closePc, closeRet, sinkErrored, sinkMarked,
                   delivered, accepted, preClose>>

\* Mutant of ListenAppend: the capacity check after the append is left out.
ListenAppendNoDispatch ==
    /\ listenPc = "lock"
    /\ mu = Free
    /\ recordsBuff' = Append(recordsBuff, listenRec)
    /\ listenPc' = "recv"
    /\ listenRec' = NoRecord
    /\ UNCHANGED orderVars
    /\ UNCHANGED loggerVars
    /\ UNCHANGED appVars
    /\ UNCHANGED <<goVars, byteVars>>
    /\ UNCHANGED <<MaxBatchSize, recordStream, streamClosed, tickerStopped, mu,
                   writePc, writeRec, writeRet, nextId, sendPc, records,
                   response, sent, closePc, closeRet, sinkErrored, sinkMarked,
                   delivered, accepted, preClose>>

\* Mutant of ListenAppend: the record is put in front of the buffer.
ListenAppendAtHead ==
    /\ listenPc = "lock"
    /\ mu = Free
    /\ recordsBuff' = <<listenRec>> \o recordsBuff
    /\ IF Len(recordsBuff') >= MaxBatchSize
       THEN CanSpawn /\ sendPc' = GoSend /\ spawnedBy' = Spawned("capacity")
       ELSE UNCHANGED <<sendPc, spawnedBy>>
    /\ listenPc' = "recv"
    /\ listenRec' = NoRecord
    /\ UNCHANGED orderVars
    /\ UNCHANGED loggerVars
    /\ UNCHANGED appVars
    /\ UNCHANGED <<appenders, byteVars>>
    /\ UNCHANGED <<MaxBatchSize, recordStream, streamClosed, tickerStopped, mu,
                   writePc, writeRec, writeRet, nextId, records, response, sent,
                   closePc, closeRet, sinkErrored, sinkMarked, delivered,
                   accepted, preClose>>

\* Mutant of ListenAppend: the append does not wait for f.mu.
ListenAppendNoLock ==
    /\ listenPc = "lock"
    /\ recordsBuff' = Append(recordsBuff, listenRec)
    /\ IF Len(recordsBuff') >= MaxBatchSize
       THEN CanSpawn /\ sendPc' = GoSend /\ spawnedBy' = Spawned("capacity")
       ELSE UNCHANGED <<sendPc, spawnedBy>>
    /\ listenPc' = "recv"
    /\ listenRec' = NoRecord
    /\ UNCHANGED orderVars
    /\ UNCHANGED loggerVars
    /\ UNCHANGED appVars
    /\ UNCHANGED <<appenders, byteVars>>
    /\ UNCHANGED <<MaxBatchSize, recordStream, streamClosed, tickerStopped, mu,
                   writePc, writeRec, writeRet, nextId, records, response, sent,
                   closePc, closeRet, sinkErrored, sinkMarked, delivered,
                   accepted, preClose>>

\* f.mu.Lock(); append; if len(f.recordsBuff) >= max { go f.send() }; f.mu.Unlock()
ListenAppend ==
    /\ listenPc = "lock"
    /\ mu = Free
    /\ recordsBuff' = Append(recordsBuff, listenRec)
    /\ IF Len(recordsBuff') >= MaxBatchSize
       THEN CanSpawn /\ sendPc' = GoSend /\ spawnedBy' = Spawned("capacity")
       ELSE UNCHANGED <<sendPc, spawnedBy>>
    /\ listenPc' = "recv"
    /\ listenRec' = NoRecord
    /\ UNCHANGED orderVars
    /\ UNCHANGED loggerVars
    /\ UNCHANGED appVars
    /\ UNCHANGED <<appenders, byteVars>>
    /\ UNCHANGED <<MaxBatchSize, recordStream, streamClosed, tickerStopped, mu,
                   writePc, writeRec, writeRet, nextId, records, response, sent,
                   closePc, closeRet, sinkErrored, sinkMarked, delivered,
                   accepted, preClose>>

\* ------------------------------------------------------------ startWatcher

\* Mutant of Tick: a tick starts no send.
TickNoDispatch ==
    /\ ~tickerStopped
    /\ CanSpawn
    /\ UNCHANGED vars

\* for range f.ticker.C { go f.send() }
Tick ==
    /\ ~tickerStopped
    /\ CanSpawn
    /\ sendPc' = GoSend
    /\ spawnedBy' = Spawned("ticker")
    /\ UNCHANGED orderVars
    /\ UNCHANGED loggerVars
    /\ UNCHANGED appVars
    /\ UNCHANGED <<appenders, byteVars>>
    /\ UNCHANGED <<MaxBatchSize, recordsBuff, recordStream, streamClosed,
                   tickerStopped, mu, writePc, writeRec, writeRet, nextId,
                   listenPc, listenRec, records, response, sent, closePc,
                   closeRet, sinkErrored, sinkMarked, delivered, accepted,
                   preClose>>

\* -------------------------------------------------------------------- send

\* Mutant of SendLock: the check for an empty buffer is left out.
SendLockNoEmptyCheck(g) ==
    /\ sendPc[g] = "lock"
    /\ mu = Free
    /\ mu' = g
    /\ LET cand == Candidate(recordsBuff, MaxBatchSize)
           trim == TrimLoop(cand, ByteLength(cand))
       IN /\ recordsBuff' = Remainder(recordsBuff, cand)
          /\ records' = [records EXCEPT ![g] = trim.records]
          /\ sendPc' = [sendPc EXCEPT ![g] = "put"]
          /\ UNCHANGED sent
    /\ began' = Began(g)
    /\ UNCHANGED <<trackOrder, after>>
    /\ UNCHANGED loggerVars
    /\ UNCHANGED appVars
    /\ UNCHANGED <<goVars, byteVars>>
    /\ UNCHANGED <<MaxBatchSize, recordStream, streamClosed, tickerStopped,
                   writePc, writeRec, writeRet, nextId, listenPc, listenRec,
                   response, closePc, closeRet, sinkErrored, sinkMarked,
                   delivered, accepted, preClose>>

\* f.mu.Lock() and the body of send up to the PutRecordBatch call: the empty
\* check, the candidate prefix, the byte total and the trimming loop.
SendLock(g) ==
    /\ sendPc[g] = "lock"
    /\ mu = Free
    /\ mu' = g
    /\ IF recordsBuff = <<>>
       THEN /\ sendPc' = [sendPc EXCEPT ![g] = "ret"]
            /\ sent' = [sent EXCEPT ![g] = 0]
            /\ UNCHANGED <<recordsBuff, records>>
       ELSE LET cand == Candidate(recordsBuff, MaxBatchSize)
                trim == TrimLoop(cand, ByteLength(cand))
            IN /\ recordsBuff' = Remainder(recordsBuff, cand)
               /\ records' = [records EXCEPT ![g] = trim.records]
               /\ IF trim.returned
                  THEN /\ sendPc' = [sendPc EXCEPT ![g] = "ret"]
                       /\ sent' = [sent EXCEPT ![g] = 0]
                  ELSE /\ sendPc' = [sendPc EXCEPT ![g] = "put"]
                       /\ UNCHANGED sent
    /\ began' = Began(g)
    /\ UNCHANGED <<trackOrder, after>>
    /\ UNCHANGED loggerVars
    /\ UNCHANGED appVars
    /\ UNCHANGED <<goVars, byteVars>>
    /\ UNCHANGED <<MaxBatchSize, recordStream, streamClosed, tickerStopped,
                   writePc, writeRec, writeRet, nextId, listenPc, listenRec,
                   response, closePc, closeRet, sinkErrored, sinkMarked,
                   delivered, accepted, preClose>>

\* response, err := f.firehoseClient.PutRecordBatch(...) returns; send puts
\* back what failed and computes its result. f.mu is still held.
SendPut(g) ==
    /\ sendPc[g] = "put"
    /\ \E resp \in PutRecordBatch(records[g]) :
          /\ response' = [response EXCEPT ![g] = resp]
          /\ sinkErrored' = (sinkErrored \/ resp.err)
          /\ sinkMarked' = (sinkMarked \/ (~resp.err /\ resp.FailedPutCount > 0))
          /\ recordsBuff' = Requeue(recordsBuff, Requeued(records[g], resp))
          /\ sent' = [sent EXCEPT ![g] = SendResult(records[g], resp)]
          /\ delivered' = delivered \cup Delivered(records[g], resp)
          /\ after' = PutBackMarks(g, records[g], resp)
    /\ sendPc' = [sendPc EXCEPT ![g] = "ret"]
    /\ UNCHANGED <<trackOrder, began>>
    /\ UNCHANGED loggerVars
    /\ UNCHANGED appVars
    /\ UNCHANGED <<goVars, byteVars>>
    /\ UNCHANGED <<MaxBatchSize, recordStream, streamClosed, tickerStopped, mu,
                   writePc, writeRec, writeRet, nextId, listenPc, listenRec,
                   records, closePc, closeRet, accepted, preClose>>

\* send returns: the deferred f.mu.Unlock() runs; a spawned goroutine ends,
\* Close goes on with its loop.
SendReturn(g) ==
    /\ sendPc[g] = "ret"
    /\ mu' = Free
    /\ sendPc' = [sendPc EXCEPT ![g] = "idle"]
    /\ records' = [records EXCEPT ![g] = <<>>]
    /\ response' = [response EXCEPT ![g] = NoResponse]
    /\ sent' = [sent EXCEPT ![g] = 0]
    /\ closePc' = IF g = Closer THEN "loop" ELSE closePc
    /\ began' = Ended(g)
    /\ spawnedBy' = IF g \in Senders THEN [spawnedBy EXCEPT ![g] = "none"]
                    ELSE spawnedBy
    /\ UNCHANGED <<trackOrder, after>>
    /\ UNCHANGED loggerVars
    /\ UNCHANGED appVars
    /\ UNCHANGED <<appenders, byteVars>>
    /\ UNCHANGED <<MaxBatchSize, recordsBuff, recordStream, streamClosed,
                   tickerStopped, writePc, writeRec, writeRet, nextId, listenPc,
                   listenRec, closeRet, sinkErrored, sinkMarked, delivered,
                   accepted, preClose>>

\* ------------------------------------------------------------------- Close

\* Close is invoked.
CloseCall ==
    /\ closePc = "idle"
    /\ closePc' = "lock"
    /\ preClose' = accepted
    /\ UNCHANGED orderVars
    /\ UNCHANGED loggerVars
    /\ UNCHANGED appVars
    /\ UNCHANGED <<goVars, byteVars>>
    /\ UNCHANGED <<MaxBatchSize, recordsBuff, recordStream, streamClosed,
                   tickerStopped, mu, writePc, writeRec, writeRet, nextId,
                   listenPc, listenRec, sendPc, records, response, sent,
                   closeRet, sinkErrored, sinkMarked, delivered, accepted>>

\* f.mu.Lock(); defer f.mu.Unlock()
CloseLock ==
    /\ closePc = "lock"
    /\ mu = Free
    /\ mu' = Closer
    /\ closePc' = "stop"
    /\ UNCHANGED orderVars
    /\ UNCHANGED loggerVars
    /\ UNCHANGED appVars
    /\ UNCHANGED <<goVars, byteVars>>
    /\ UNCHANGED <<MaxBatchSize, recordsBuff, recordStream, streamClosed,
                   tickerStopped, writePc, writeRec, writeRet, nextId, listenPc,
                   listenRec, sendPc, records, response, sent, closeRet,
                   sinkErrored, sinkMarked, delivered, accepted, preClose>>

\* f.ticker.Stop()
CloseStopTicker ==
    /\ closePc = "stop"
    /\ tickerStopped' = TRUE
    /\ closePc' = "close"
    /\ UNCHANGED orderVars
    /\ UNCHANGED loggerVars
    /\ UNCHANGED appVars
    /\ UNCHANGED <<goVars, byteVars>>
    /\ UNCHANGED <<MaxBatchSize, recordsBuff, recordStream, streamClosed, mu,
                   writePc, writeRec, writeRet, nextId, listenPc, listenRec,
                   sendPc, records, response, sent, closeRet, sinkErrored,
                   sinkMarked, delivered, accepted, preClose>>

\* close(f.recordStream)
CloseStream ==
    /\ closePc = "close"
    /\ streamClosed' = TRUE
    /\ closePc' = "loop"
    /\ UNCHANGED orderVars
    /\ UNCHANGED loggerVars
    /\ UNCHANGED appVars
    /\ UNCHANGED <<goVars, byteVars>>
    /\ UNCHANGED <<MaxBatchSize, recordsBuff, recordStream, tickerStopped, mu,
                   writePc, writeRec, writeRet, nextId, listenPc, listenRec,
                   sendPc, records, response, sent, closeRet, sinkErrored,
                   sinkMarked, delivered, accepted, preClose>>

\* for len(f.recordsBuff) > 0 { f.send() }; return nil (and the deferred
\* Unlock). Close still holds f.mu when it calls send.
CloseLoop ==
    /\ closePc = "loop"
    /\ IF Len(recordsBuff) > 0
       THEN /\ closePc' = "send"
            /\ sendPc' = [sendPc EXCEPT ![Closer] = "lock"]
            /\ UNCHANGED <<mu, closeRet>>
       ELSE /\ closePc' = "done"
            /\ closeRet' = "nil"
            /\ mu' = Free
            /\ UNCHANGED sendPc
    /\ UNCHANGED orderVars
    /\ UNCHANGED loggerVars
    /\ UNCHANGED appVars
    /\ UNCHANGED <<goVars, byteVars>>
    /\ UNCHANGED <<MaxBatchSize, recordsBuff, recordStream, streamClosed,
                   tickerStopped, writePc, writeRec, writeRet, nextId, listenPc,
                   listenRec, records, response, sent, sinkErrored, sinkMarked,
                   delivered, accepted, preClose>>

\* --------------------------------------------------------- my_logger Write

\* Firehose limit of my_logger (1000 * 1024).
max_log_byte_length == 1024000

\* my_logger's Write(logBytes): an oversized payload is reported; otherwise
\* the clone of the payload is handed to a new goroutine, go func(r), and
\* Write returns len(logBytes), nil without waiting for it. Records are
\* numbered in the order in which their Writes return.
MyLoggerWrite(p, l) ==
    /\ writePc[p] = "idle"
    /\ writeRet' = [writeRet EXCEPT ![p] = [n |-> l, err |-> "nil"]]
    /\ IF l > max_log_byte_length
       THEN /\ UNCHANGED <<appenders, nextId, accepted>>
            /\ UNCHANGED byteVars
       ELSE /\ nextId <= MaxWrites
            /\ appenders' = appenders \cup {[id |-> nextId, len |-> l]}
            /\ nextId' = nextId + 1
            /\ accepted' = accepted \cup {nextId}
            /\ mem' = Clone(mem, Buf(p), Rec(nextId))
            /\ Data' = [Data EXCEPT ![nextId] = Rec(nextId)]
            /\ wrote' = [wrote EXCEPT ![nextId] = mem[Buf(p)]]
    /\ UNCHANGED spawnedBy
    /\ UNCHANGED orderVars
    /\ UNCHANGED loggerVars
    /\ UNCHANGED appVars
    /\ UNCHANGED <<MaxBatchSize, recordsBuff, recordStream, streamClosed,
                   tickerStopped, mu, writePc, writeRec, listenPc, listenRec,
                   sendPc, records, response, sent, closePc, closeRet,
                   sinkErrored, sinkMarked, delivered, preClose>>

\* The goroutine started by the Write of record id, holding r: f.mu.Lock();
\* append; if len(f.recordsBuff) >= max { go f.send() }; f.mu.Unlock()
MyLoggerAppend(id) ==
    /\ id \in {x.id : x \in appenders}
    /\ mu = Free
    /\ LET r == CHOOSE x \in appenders : x.id = id
       IN /\ recordsBuff' = Append(recordsBuff, r)
          /\ appenders' = appenders \ {r}
    /\ IF Len(recordsBuff') >= MaxBatchSize
       THEN CanSpawn /\ sendPc' = GoSend /\ spawnedBy' = Spawned("capacity")
       ELSE UNCHANGED <<sendPc, spawnedBy>>
    /\ UNCHANGED orderVars
    /\ UNCHANGED loggerVars
    /\ UNCHANGED appVars
    /\ UNCHANGED byteVars
    /\ UNCHANGED <<MaxBatchSize, recordStream, streamClosed, tickerStopped, mu,
                   writePc, writeRec, writeRet, nextId, listenPc, listenRec,
                   records, response, sent, closePc, closeRet, sinkErrored,
                   sinkMarked, delivered, accepted, preClose>>

\* ------------------------------------------------------------------ Logger

\* Custom slog levels (my_logger: levelTrace, levelFatal, levelCritical).
levelTrace == -8
levelFatal == 12
levelCritical == 16

\* Number of goroutines that switch the log context of one Logger.
NumCtxThreads == 2
\* Number of AddLogContext calls made between two clears.
MaxCtx == 2

CtxThreads == 1..NumCtxThreads
Ctx(t) == <<"ctx", t>>

\* The level names Log and NewLogger are called with: the seven the switch
\* knows and one it does not.
LevelNames == {"trace", "debug", "info", "warn", "error", "critical", "fatal"}
OptLevels == LevelNames \cup {"non_existent_level"}
\* The Level option of the constructed Logger.
HandlerLevels == {"trace", "warn", "fatal"}

\* setupBaseAttrs: name, version, hostname and the default attributes.
DefaultAttrs == {"env"}
BaseAttrs == DefaultAttrs \cup {"name", "version", "hostname"}
\* The attrs of the AddLogContext calls.
CtxAttrs == {{"a"}, {"b"}}

\* Mutant of getSlogLevel: "critical" and "fatal" map to the levels of their
\* own names.
getSlogLevelByName(optLevel) ==
    CASE optLevel = "trace" -> [level |-> levelTrace, err |-> "nil"]
      [] optLevel = "debug" -> [level |-> -4, err |-> "nil"]
      [] optLevel = "info" -> [level |-> 0, err |-> "nil"]
      [] optLevel = "warn" -> [level |-> 4, err |-> "nil"]
      [] optLevel = "error" -> [level |-> 8, err |-> "nil"]
      [] optLevel = "critical" -> [level |-> levelCritical, err |-> "nil"]
      [] optLevel = "fatal" -> [level |-> levelFatal, err |-> "nil"]
      [] OTHER -> [level |-> -99, err |-> "unknown level"]

\* func getSlogLevel(optLevel string) (slog.Level, error); slog.LevelDebug,
\* LevelInfo, LevelWarn and LevelError are -4, 0, 4 and 8.
getSlogLevel(optLevel) ==
    CASE optLevel = "trace" -> [level |-> levelTrace, err |-> "nil"]
      [] optLevel = "debug" -> [level |-> -4, err |-> "nil"]
      [] optLevel = "info" -> [level |-> 0, err |-> "nil"]
      [] optLevel = "warn" -> [level |-> 4, err |-> "nil"]
      [] optLevel = "error" -> [level |-> 8, err |-> "nil"]
      [] optLevel = "critical" -> [level |-> levelFatal, err |-> "nil"]
      [] optLevel = "fatal" -> [level |-> levelCritical, err |-> "nil"]
      [] OTHER -> [level |-> -99, err |-> "unknown level"]

\* (*slog.Logger).With(attrs...): a new logger with one more attribute group.
With(l, attrs) == Append(l, attrs)

\* var levelNames: the labels of the custom levels.
levelNames ==
    [l \in {levelTrace, levelFatal, levelCritical} |->
        CASE l = levelTrace -> "TRACE"
          [] l = levelFatal -> "FATAL"
          [] l = levelCritical -> "CRITICAL"]

\* (slog.Level).String(): the name of the nearest standard level below, and
\* the offset from it.
LevelString(level) ==
    CASE level = -8 -> "DEBUG-4"
      [] level = -4 -> "DEBUG"
      [] level = 0 -> "INFO"
      [] level = 4 -> "WARN"
      [] level = 8 -> "ERROR"
      [] level = 12 -> "ERROR+4"
      [] level = 16 -> "ERROR+8"

\* replaceCustomLevelNames on the attribute slog.LevelKey: the label of
\* levelNames when the level has one, level.String() otherwise.
replaceCustomLevelNames(level) ==
    IF level \in DOMAIN levelNames THEN levelNames[level]
    ELSE LevelString(level)

NoLog ==
    [name |-> "", ret |-> [level |-> 0, err |-> "none"], record |-> <<>>,
     label |-> ""]

\* The AddLogContext calls in progress.
Adding ==
    {t \in CtxThreads : ctxPc[t] \in {"addLock", "addWith", "addStore"}}

\* l.AddLogContext(attrs...) is called.
AddLogContext(t, attrs) ==
    /\ ctxPc[t] = "idle"
    /\ Len(added) + Cardinality(Adding) < MaxCtx
    /\ ctxPc' = [ctxPc EXCEPT ![t] = "addLock"]
    /\ ctxArg' = [ctxArg EXCEPT ![t] = attrs]
    /\ UNCHANGED <<logger, contextLogger, ctxFence, ctxTmp, added, gotBase,
                   minLevel, lastLog>>
    /\ UNCHANGED <<streamVars, orderVars, goVars, byteVars, appVars>>

\* Mutant of AddLogContextLock: the fence is taken without waiting for it.
AddLogContextNoFence(t) ==
    /\ ctxPc[t] = "addLock"
    /\ ctxFence' = Ctx(t)
    /\ ctxPc' = [ctxPc EXCEPT ![t] = "addWith"]
    /\ UNCHANGED <<logger, contextLogger, ctxArg, ctxTmp, added, gotBase,
                   minLevel, lastLog>>
    /\ UNCHANGED <<streamVars, orderVars, goVars, byteVars, appVars>>

\* AddLogContext: l.ctxFence.Lock()
AddLogContextLock(t) ==
    /\ ctxPc[t] = "addLock"
    /\ ctxFence = Free
    /\ ctxFence' = Ctx(t)
    /\ ctxPc' = [ctxPc EXCEPT ![t] = "addWith"]
    /\ UNCHANGED <<logger, contextLogger, ctxArg, ctxTmp, added, gotBase,
                   minLevel, lastLog>>
    /\ UNCHANGED <<streamVars, orderVars, goVars, byteVars, appVars>>

\* AddLogContext: l.contextLogger.With(attrs...) is evaluated.
AddLogContextWith(t) ==
    /\ ctxPc[t] = "addWith"
    /\ ctxTmp' = [ctxTmp EXCEPT ![t] = With(contextLogger, ctxArg[t])]
    /\ ctxPc' = [ctxPc EXCEPT ![t] = "addStore"]
    /\ UNCHANGED <<logger, contextLogger, ctxFence, ctxArg, added, gotBase,
                   minLevel, lastLog>>
    /\ UNCHANGED <<streamVars, orderVars, goVars, byteVars, appVars>>

\* AddLogContext: l.contextLogger = (the value evaluated)
AddLogContextStore(t) ==
    /\ ctxPc[t] = "addStore"
    /\ contextLogger' = ctxTmp[t]
    /\ added' = Append(added, ctxArg[t])
    /\ ctxPc' = [ctxPc EXCEPT ![t] = "addUnlock"]
    /\ UNCHANGED <<logger, ctxFence, ctxArg, ctxTmp, gotBase, minLevel,
                   lastLog>>
    /\ UNCHANGED <<streamVars, orderVars, goVars, byteVars, appVars>>

\* l.ClearLogContext() is called.
ClearLogContext(t) ==
    /\ ctxPc[t] = "idle"
    /\ ctxPc' = [ctxPc EXCEPT ![t] = "clearLock"]
    /\ UNCHANGED <<logger, contextLogger, ctxFence, ctxArg, ctxTmp, added,
                   gotBase, minLevel, lastLog>>
    /\ UNCHANGED <<streamVars, orderVars, goVars, byteVars, appVars>>

\* ClearLogContext: l.ctxFence.Lock()
ClearLogContextLock(t) ==
    /\ ctxPc[t] = "clearLock"
    /\ ctxFence = Free
    /\ ctxFence' = Ctx(t)
    /\ ctxPc' = [ctxPc EXCEPT ![t] = "clearStore"]
    /\ UNCHANGED <<logger, contextLogger, ctxArg, ctxTmp, added, gotBase,
                   minLevel, lastLog>>
    /\ UNCHANGED <<streamVars, orderVars, goVars, byteVars, appVars>>

\* Mutant of ClearLogContextStore: the context logger is left as it is.
ClearLogContextKeeps(t) ==
    /\ ctxPc[t] = "clearStore"
    /\ added' = <<>>
    /\ ctxPc' = [ctxPc EXCEPT ![t] = "clearUnlock"]
    /\ UNCHANGED <<logger, contextLogger, ctxFence, ctxArg, ctxTmp, gotBase,
                   minLevel, lastLog>>
    /\ UNCHANGED <<streamVars, orderVars, goVars, byteVars, appVars>>

\* ClearLogContext: l.contextLogger = l.logger
ClearLogContextStore(t) ==
    /\ ctxPc[t] = "clearStore"
    /\ contextLogger' = logger
    /\ added' = <<>>
    /\ ctxPc' = [ctxPc EXCEPT ![t] = "clearUnlock"]
    /\ UNCHANGED <<logger, ctxFence, ctxArg, ctxTmp, gotBase, minLevel,
                   lastLog>>
    /\ UNCHANGED <<streamVars, orderVars, goVars, byteVars, appVars>>

\* The deferred l.ctxFence.Unlock() of AddLogContext and ClearLogContext.
CtxUnlock(t) ==
    /\ ctxPc[t] \in {"addUnlock", "clearUnlock"}
    /\ ctxFence' = Free
    /\ ctxPc' = [ctxPc EXCEPT ![t] = "idle"]
    /\ ctxArg' = [ctxArg EXCEPT ![t] = {}]
    /\ ctxTmp' = [ctxTmp EXCEPT ![t] = <<>>]
    /\ UNCHANGED <<logger, contextLogger, added, gotBase, minLevel, lastLog>>
    /\ UNCHANGED <<streamVars, orderVars, goVars, byteVars, appVars>>

\* GetBaseLogger: loggerCopy := *l.logger; return &loggerCopy
GetBaseLogger(t) ==
    /\ ctxPc[t] = "idle"
    /\ gotBase' = logger
    /\ UNCHANGED <<logger, contextLogger, ctxFence, ctxPc, ctxArg, ctxTmp,
                   added, minLevel, lastLog>>
    /\ UNCHANGED <<streamVars, orderVars, goVars, byteVars, appVars>>

\* Log(ctx, level, msg, attrs...): an unknown level name is returned as an
\* error; otherwise l.contextLogger.Log emits a record with the attributes of
\* the context logger when the handler is enabled for the level, its level
\* attribute rewritten by replaceCustomLevelNames.
Log(t, level) ==
    /\ ctxPc[t] = "idle"
    /\ LET ret == getSlogLevel(level)
           enabled == ret.err = "nil" /\ ret.level >= minLevel
       IN lastLog' =
             [name |-> level,
              ret |-> ret,
              record |-> IF enabled THEN contextLogger ELSE <<>>,
              label |-> IF enabled THEN replaceCustomLevelNames(ret.level)
                        ELSE ""]
    /\ UNCHANGED <<logger, contextLogger, ctxFence, ctxPc, ctxArg, ctxTmp,
                   added, gotBase, minLevel>>
    /\ UNCHANGED <<streamVars, orderVars, goVars, byteVars, appVars>>

\* NewLogger(opts) with opts.Level = level: the base logger carries the base
\* attributes and is the context logger as well.
NewLogger(level) ==
    /\ logger = <<BaseAttrs>>
    /\ contextLogger = <<BaseAttrs>>
    /\ ctxFence = Free
    /\ ctxPc = [t \in CtxThreads |-> "idle"]
    /\ ctxArg = [t \in CtxThreads |-> {}]
    /\ ctxTmp = [t \in CtxThreads |-> <<>>]
    /\ added = <<>>
    /\ gotBase = <<>>
    /\ minLevel = getSlogLevel(level).level
    /\ lastLog = NoLog

\* ------------------------------------- main, GracefulShutdown, HandleRequest

\* Number of HTTP requests served.
NumRequests == 2
Requests == 1..NumRequests

\* GracefulShutdown has called s.Shutdown.
ShutdownCalled ==
    mainPc \in {"shutdown", "stopper", "hard", "return", "close", "closing",
                "exit"}

\* s.Shutdown has returned.
ShutdownReturned ==
    mainPc \in {"stopper", "hard", "return", "close", "closing", "exit"}

\* GracefulShutdown has returned to main.
GracefulReturned == mainPc \in {"close", "closing", "exit"}

\* main: the server is started (go srv.Start()) and GracefulShutdown waits for
\* a termination signal; no request yet, the output stream is open.
AppStart ==
    /\ mainPc = "wait"
    /\ isShuttingDown = FALSE
    /\ ongoingCtx = "live"
    /\ shutdownErr = FALSE
    /\ reqPc = [r \in Requests |-> "idle"]
    /\ afterPc = [r \in Requests |-> "none"]
    /\ outStreamClosed = FALSE
    /\ finishedAt = [r \in Requests |-> "none"]

\* <-rootCtx.Done(); stop()
Signal ==
    /\ mainPc = "wait"
    /\ mainPc' = "store"
    /\ UNCHANGED <<isShuttingDown, ongoingCtx, shutdownErr, reqPc, afterPc,
                   outStreamClosed, finishedAt>>
    /\ UNCHANGED <<streamVars, orderVars, loggerVars, goVars, byteVars>>

\* shutdownFlag.Store(true)
StoreFlag ==
    /\ mainPc = "store"
    /\ isShuttingDown' = TRUE
    /\ mainPc' = "sleep"
    /\ UNCHANGED <<ongoingCtx, shutdownErr, reqPc, afterPc, outStreamClosed,
                   finishedAt>>
    /\ UNCHANGED <<streamVars, orderVars, loggerVars, goVars, byteVars>>

\* Mutant of CallShutdown: the base context is cancelled before Shutdown is
\* called.
CallShutdownAfterStopper ==
    /\ mainPc = "sleep"
    /\ mainPc' = "shutdown"
    /\ ongoingCtx' = "done"
    /\ UNCHANGED <<isShuttingDown, shutdownErr, reqPc, afterPc,
                   outStreamClosed, finishedAt>>
    /\ UNCHANGED <<streamVars, orderVars, loggerVars, goVars, byteVars>>

\* time.Sleep(_readinessDrainDelay) is over; s.Shutdown(shutdownCtx) is
\* called: the server stops accepting requests.
CallShutdown ==
    /\ mainPc = "sleep"
    /\ mainPc' = "shutdown"
    /\ UNCHANGED <<isShuttingDown, ongoingCtx, shutdownErr, reqPc, afterPc,
                   outStreamClosed, finishedAt>>
    /\ UNCHANGED <<streamVars, orderVars, loggerVars, goVars, byteVars>>

\* err := s.Shutdown(shutdownCtx) returns: nil once no request is being
\* served, the error of shutdownCtx when _shutdownPeriod expires first.
ShutdownReturn ==
    /\ mainPc = "shutdown"
    /\ shutdownErr' = (\E r \in Requests : reqPc[r] = "serving")
    /\ mainPc' = "stopper"
    /\ UNCHANGED <<isShuttingDown, ongoingCtx, reqPc, afterPc, outStreamClosed,
                   finishedAt>>
    /\ UNCHANGED <<streamVars, orderVars, loggerVars, goVars, byteVars>>

\* s.requestStopper(): the base context of the requests is cancelled.
RequestStopper ==
    /\ mainPc = "stopper"
    /\ ongoingCtx' = "done"
    /\ mainPc' = IF shutdownErr THEN "hard" ELSE "return"
    /\ UNCHANGED <<isShuttingDown, shutdownErr, reqPc, afterPc,
                   outStreamClosed, finishedAt>>
    /\ UNCHANGED <<streamVars, orderVars, loggerVars, goVars, byteVars>>

\* if err != nil { ...; time.Sleep(_shutdownHardPeriod) }
HardWait ==
    /\ mainPc = "hard"
    /\ mainPc' = "return"
    /\ UNCHANGED <<isShuttingDown, ongoingCtx, shutdownErr, reqPc, afterPc,
                   outStreamClosed, finishedAt>>
    /\ UNCHANGED <<streamVars, orderVars, loggerVars, goVars, byteVars>>

\* return shutdownCtx: GracefulShutdown returns to main.
GracefulShutdown ==
    /\ mainPc = "return"
    /\ mainPc' = "close"
    /\ UNCHANGED <<isShuttingDown, ongoingCtx, shutdownErr, reqPc, afterPc,
                   outStreamClosed, finishedAt>>
    /\ UNCHANGED <<streamVars, orderVars, loggerVars, goVars, byteVars>>

\* main: outStreamCloser.Close() is called.
MainClose ==
    /\ mainPc = "close"
    /\ outStreamClosed' = TRUE
    /\ mainPc' = "closing"
    /\ UNCHANGED <<isShuttingDown, ongoingCtx, shutdownErr, reqPc, afterPc,
                   finishedAt>>
    /\ UNCHANGED <<streamVars, orderVars, loggerVars, goVars, byteVars>>

\* Close has returned and main returns: the process ends.
MainExit ==
    /\ mainPc = "closing"
    /\ mainPc' = "exit"
    /\ UNCHANGED <<isShuttingDown, ongoingCtx, shutdownErr, reqPc, afterPc,
                   outStreamClosed, finishedAt>>
    /\ UNCHANGED <<streamVars, orderVars, loggerVars, goVars, byteVars>>

\* HandleRequest up to next.ServeHTTP: the request is logged as started and
\* context.AfterFunc registers the callback on the request context.
HandleRequest(r) ==
    /\ ~ShutdownCalled
    /\ reqPc[r] = "idle"
    /\ reqPc' = [reqPc EXCEPT ![r] = "serving"]
    /\ afterPc' = [afterPc EXCEPT ![r] = "armed"]
    /\ UNCHANGED <<mainPc, isShuttingDown, ongoingCtx, shutdownErr,
                   outStreamClosed, finishedAt>>
    /\ UNCHANGED <<streamVars, orderVars, loggerVars, goVars, byteVars>>

\* next.ServeHTTP(lrw, r) and the handler return: the server cancels the
\* request context.
ServeHTTPReturn(r) ==
    /\ mainPc # "exit"
    /\ reqPc[r] = "serving"
    /\ reqPc' = [reqPc EXCEPT ![r] = "returned"]
    /\ UNCHANGED <<mainPc, isShuttingDown, ongoingCtx, shutdownErr, afterPc,
                   outStreamClosed, finishedAt>>
    /\ UNCHANGED <<streamVars, orderVars, loggerVars, goVars, byteVars>>

\* The request context is done (the handler returned, or the base context
\* was cancelled): context.AfterFunc starts the callback in its own
\* goroutine.
AfterFuncStart(r) ==
    /\ mainPc # "exit"
    /\ afterPc[r] = "armed"
    /\ reqPc[r] = "returned" \/ ongoingCtx = "done"
    /\ afterPc' = [afterPc EXCEPT ![r] = "running"]
    /\ UNCHANGED <<mainPc, isShuttingDown, ongoingCtx, shutdownErr, reqPc,
                   outStreamClosed, finishedAt>>
    /\ UNCHANGED <<streamVars, orderVars, loggerVars, goVars, byteVars>>

\* The callback: log.Info("HTTP Request finished", resLogData) writes the
\* record to the output stream; log.ClearLogContext().
AfterFuncRun(r) ==
    /\ mainPc # "exit"
    /\ afterPc[r] = "running"
    /\ afterPc' = [afterPc EXCEPT ![r] = "done"]
    /\ finishedAt' = [finishedAt EXCEPT
                         ![r] = IF outStreamClosed THEN "closed" ELSE "open"]
    /\ UNCHANGED <<mainPc, isShuttingDown, ongoingCtx, shutdownErr, reqPc,
                   outStreamClosed>>
    /\ UNCHANGED <<streamVars, orderVars, loggerVars, goVars, byteVars>>

\* ---------------------------------------------------------- specifications

\* NewFirehoseLogStream: empty buffer, empty channel, ticker running, the
\* listener and the watcher started.
NewFirehoseLogStream ==
    /\ MaxBatchSize = SmallBatch
    /\ recordsBuff = <<>>
    /\ recordStream = <<>>
    /\ streamClosed = FALSE
    /\ tickerStopped = FALSE
    /\ mu = Free
    /\ writePc = [p \in Producers |-> "idle"]
    /\ writeRec = [p \in Producers |-> NoRecord]
    /\ writeRet = [p \in Producers |-> [n |-> 0, err |-> "none"]]
    /\ nextId = 1
    /\ listenPc = "recv"
    /\ listenRec = NoRecord
    /\ sendPc = [g \in Callers |-> "idle"]
    /\ records = [g \in Callers |-> <<>>]
    /\ response = [g \in Callers |-> NoResponse]
    /\ sent = [g \in Callers |-> 0]
    /\ closePc = "idle"
    /\ closeRet = "none"
    /\ sinkErrored = FALSE
    /\ sinkMarked = FALSE
    /\ delivered = {}
    /\ accepted = {}
    /\ preClose = {}

\* No goroutine has been started by a go statement of Write, of
\* listenRecordStream or of startWatcher.
NoGoroutines ==
    /\ spawnedBy = [g \in Senders |-> "none"]
    /\ appenders = {}

\* The first n records hold clones of "x"; every caller's slice holds "x".
BytesInit(n) ==
    /\ mem = [a \in Arrays |->
                IF a \in {Buf(p) : p \in Producers} \cup {Rec(i) : i \in 1..n}
                THEN "x" ELSE ""]
    /\ Data = [i \in RecordIds |-> IF i <= n THEN Rec(i) ELSE Nil]
    /\ wrote = [i \in RecordIds |-> IF i <= n THEN "x" ELSE ""]

\* No order history is kept.
OrderOff ==
    /\ trackOrder = FALSE
    /\ began = [g \in Callers |-> 0]
    /\ after = [a \in 1..MaxWrites |-> 0]

\* The order history is kept from the start.
OrderOn ==
    /\ trackOrder = TRUE
    /\ began = [g \in Callers |-> 0]
    /\ after = [a \in 1..MaxWrites |-> 0]

Init ==
    /\ NewFirehoseLogStream
    /\ OrderOff
    /\ NewLogger("info")
    /\ NoGoroutines
    /\ BytesInit(0)
    /\ AppStart

Next ==
    \/ \E p \in Producers, l \in PayloadLens : WriteCall(p, l)
    \/ \E p \in Producers : WriteSend(p)
    \/ ListenRecv
    \/ ListenAppend
    \/ Tick
    \/ \E g \in Callers : SendLock(g)
    \/ \E g \in Callers : SendPut(g)
    \/ \E g \in Callers : SendReturn(g)
    \/ CloseCall
    \/ CloseLock
    \/ CloseStopTicker
    \/ CloseStream
    \/ CloseLoop

Spec == Init /\ [][Next]_vars


\* sent := stream.send(): a direct, synchronous call of send.
CallSend ==
    /\ sendPc[Tester] = "idle"
    /\ sendPc' = [sendPc EXCEPT ![Tester] = "lock"]
    /\ UNCHANGED orderVars
    /\ UNCHANGED loggerVars
    /\ UNCHANGED appVars
    /\ UNCHANGED <<goVars, byteVars>>
    /\ UNCHANGED <<MaxBatchSize, recordsBuff, recordStream, streamClosed,
                   tickerStopped, mu, writePc, writeRec, writeRet, nextId,
                   listenPc, listenRec, records, response, sent, closePc,
                   closeRet, sinkErrored, sinkMarked, delivered, accepted,
                   preClose>>

\* The stream with a buffer that Writes have filled, no producer active and
\* the ticker silent (WatcherDelay 999999), on which send is called directly
\* again and again: the buffer is any sequence of at most MaxHeld in-limit
\* records.
HeldBuffers ==
    UNION {{[i \in 1..n |-> [id |-> i, len |-> f[i]]] : f \in [1..n -> HeldLens]}
              : n \in 0..MaxHeld}

SendInit ==
    /\ MaxBatchSize = LargeBatch
    /\ recordsBuff \in HeldBuffers
    /\ recordStream = <<>>
    /\ streamClosed = FALSE
    /\ tickerStopped = FALSE
    /\ mu = Free
    /\ writePc = [p \in Producers |-> "idle"]
    /\ writeRec = [p \in Producers |-> NoRecord]
    /\ writeRet = [p \in Producers |-> [n |-> 0, err |-> "none"]]
    /\ nextId = Len(recordsBuff) + 1
    /\ listenPc = "recv"
    /\ listenRec = NoRecord
    /\ sendPc = [g \in Callers |-> "idle"]
    /\ records = [g \in Callers |-> <<>>]
    /\ response = [g \in Callers |-> NoResponse]
    /\ sent = [g \in Callers |-> 0]
    /\ closePc = "idle"
    /\ closeRet = "none"
    /\ sinkErrored = FALSE
    /\ sinkMarked = FALSE
    /\ delivered = {}
    /\ accepted = Ids(recordsBuff)
    /\ preClose = {}
    /\ OrderOff
    /\ NewLogger("info")
    /\ NoGoroutines
    /\ BytesInit(Len(recordsBuff))
    /\ AppStart

SendNext ==
    \/ CallSend
    \/ SendLock(Tester)
    \/ SendPut(Tester)
    \/ SendReturn(Tester)

SendSpec == SendInit /\ [][SendNext]_vars

\* Scheduling: a goroutine that can take its next step eventually takes it.
\* Write calls, the call of Close and ticks are left to the environment.
Fairness ==
    /\ \A p \in Producers : WF_vars(WriteSend(p))
    /\ WF_vars(ListenRecv \/ ListenAppend)
    /\ \A g \in Callers : WF_vars(SendLock(g) \/ SendPut(g) \/ SendReturn(g))
    /\ WF_vars(CloseLock \/ CloseStopTicker \/ CloseStream \/ CloseLoop)

LiveSpec == Spec /\ Fairness

\* The open stream: Writes, the listener, the ticker and the sends they start;
\* Close is not called.
OpenNext ==
    \/ \E p \in Producers, l \in PayloadLens : WriteCall(p, l)
    \/ \E p \in Producers : WriteSend(p)
    \/ ListenRecv
    \/ ListenAppend
    \/ Tick
    \/ \E g \in Senders : SendLock(g)
    \/ \E g \in Senders : SendPut(g)
    \/ \E g \in Senders : SendReturn(g)

\* The open stream with the order history kept.
OrderInit ==
    /\ NewFirehoseLogStream
    /\ OrderOn
    /\ NewLogger("info")
    /\ NoGoroutines
    /\ BytesInit(0)
    /\ AppStart

OrderSpec == OrderInit /\ [][OpenNext]_vars

\* The open stream with a ticker that does not fire (WatcherDelay 999999).
CapacityNext ==
    \/ \E p \in Producers, l \in PayloadLens : WriteCall(p, l)
    \/ \E p \in Producers : WriteSend(p)
    \/ ListenRecv
    \/ ListenAppend
    \/ \E g \in Senders : SendLock(g)
    \/ \E g \in Senders : SendPut(g)
    \/ \E g \in Senders : SendReturn(g)

\* Scheduling of the open stream: the goroutines that can step do step, and
\* PutRecordBatch returns.
OpenFairness ==
    /\ \A p \in Producers : WF_vars(WriteSend(p))
    /\ WF_vars(ListenRecv \/ ListenAppend)
    /\ \A g \in Senders : WF_vars(SendLock(g) \/ SendPut(g) \/ SendReturn(g))

CapacityLiveSpec == Init /\ [][CapacityNext]_vars /\ OpenFairness

\* The ticker keeps firing.
TickerLiveSpec == Init /\ [][OpenNext]_vars /\ OpenFairness /\ WF_vars(Tick)

\* The open stream with producers that reuse their slices between Writes.
CopyNext ==
    \/ \E p \in Producers, l \in PayloadLens : WriteCall(p, l)
    \/ \E p \in Producers : WriteSend(p)
    \/ ListenRecv
    \/ ListenAppend
    \/ Tick
    \/ \E g \in Senders : SendLock(g)
    \/ \E g \in Senders : SendPut(g)
    \/ \E g \in Senders : SendReturn(g)
    \/ \E p \in Producers, b \in Bytes : MutateCaller(p, b)

CopySpec == Init /\ [][CopyNext]_vars

\* The open stream of my_logger: Writes, the goroutines they start, the ticker
\* and the sends; there is no record channel and no listener.
MyLoggerNext ==
    \/ \E p \in Producers, l \in PayloadLens : MyLoggerWrite(p, l)
    \/ \E id \in 1..MaxWrites : MyLoggerAppend(id)
    \/ Tick
    \/ \E g \in Senders : SendLock(g)
    \/ \E g \in Senders : SendPut(g)
    \/ \E g \in Senders : SendReturn(g)

MyLoggerSpec == Init /\ [][MyLoggerNext]_vars

\* The API process: main, GracefulShutdown, the requests and their callbacks.
AppNext ==
    \/ Signal
    \/ StoreFlag
    \/ CallShutdown
    \/ ShutdownReturn
    \/ RequestStopper
    \/ HardWait
    \/ GracefulShutdown
    \/ MainClose
    \/ MainExit
    \/ \E r \in Requests : HandleRequest(r)
    \/ \E r \in Requests : ServeHTTPReturn(r)
    \/ \E r \in Requests : AfterFuncStart(r)
    \/ \E r \in Requests : AfterFuncRun(r)

AppSpec == Init /\ [][AppNext]_vars

\* One Logger used by NumCtxThreads goroutines.
LoggerInit ==
    /\ NewFirehoseLogStream
    /\ OrderOff
    /\ \E level \in HandlerLevels : NewLogger(level)
    /\ NoGoroutines
    /\ BytesInit(0)
    /\ AppStart

LoggerNext ==
    \/ \E t \in CtxThreads, attrs \in CtxAttrs : AddLogContext(t, attrs)
    \/ \E t \in CtxThreads : AddLogContextLock(t)
    \/ \E t \in CtxThreads : AddLogContextWith(t)
    \/ \E t \in CtxThreads : AddLogContextStore(t)
    \/ \E t \in CtxThreads : ClearLogContext(t)
    \/ \E t \in CtxThreads : ClearLogContextLock(t)
    \/ \E t \in CtxThreads : ClearLogContextStore(t)
    \/ \E t \in CtxThreads : CtxUnlock(t)
    \/ \E t \in CtxThreads : GetBaseLogger(t)
    \/ \E t \in CtxThreads, level \in OptLevels : Log(t, level)

LoggerSpec == LoggerInit /\ [][LoggerNext]_vars


\* ------------------------------------------------------------------ claims

\* The records that are on their way to the sink: in the record channel (or
\* taken from it by listenRecordStream and about to be appended), in the
\* buffer, or in the batch of a send that is inside PutRecordBatch.
InFlight == UNION {Ids(records[g]) : g \in {h \in Callers : sendPc[h] = "put"}}

Pending ==
    Ids(recordStream)
    \cup (IF listenPc = "lock" THEN {listenRec.id} ELSE {})
    \cup Ids(recordsBuff)
    \cup InFlight

\* C1: every record accepted by Write (in-limit, Write returned) is still
\* pending (channel, buffer, batch of the flush in progress) or has been
\* reported delivered by the sink, whatever the sink answered so far.
C1_NoAcceptedRecordLost ==
    \A id \in accepted : id \in Pending \/ id \in delivered

\* C1 witness: after a refused delivery, one record is delivered, one is in
\* the buffer and one is in the batch of a send inside PutRecordBatch.
C1_Witness ==
    /\ sinkRefused
    /\ delivered # {}
    /\ recordsBuff # <<>>
    /\ InFlight # {}

\* C7: a send takes as its candidate set exactly the first
\* min(len(buffer), MaxBatchSize) records of the buffer, so the batch holds at
\* most MaxBatchSize records, and the records beyond that prefix stay in the
\* buffer in unchanged order.
C7_SendTakesPrefix ==
    [][\A g \in Callers :
          (sendPc[g] = "lock" /\ sendPc'[g] = "put") =>
             LET n == Min(Len(recordsBuff), MaxBatchSize)
             IN /\ Len(records'[g]) = n
                /\ Len(records'[g]) <= MaxBatchSize
                /\ Ids(records'[g]) = Ids(SubSeq(recordsBuff, 1, n))
                /\ recordsBuff' = SubSeq(recordsBuff, n + 1, Len(recordsBuff))]_vars

\* C7 witness: a send is inside PutRecordBatch with a full batch while the
\* records beyond the prefix are still in the buffer.
C7_Witness ==
    \E g \in Callers :
        /\ sendPc[g] = "put"
        /\ Len(records[g]) = MaxBatchSize
        /\ recordsBuff # <<>>

\* The records of caller g's batch that the response marks as failed.
MarkedFailed(g) ==
    {records[g][i].id :
        i \in {j \in 1..Len(records[g]) : response[g].RequestResponses[j]}}

\* C8: after a transport error for a batch of N records, send returns 0 and
\* the buffer holds all N records of the batch, besides the records that were
\* not part of it.
C8_TransportErrorRequeuesAll ==
    \A g \in Callers :
        (sendPc[g] = "ret" /\ response[g].err) =>
            /\ sent[g] = 0
            /\ \A i \in 1..Len(records[g]) :
                  \E j \in 1..Len(recordsBuff) : recordsBuff[j] = records[g][i]
            /\ Ids(records[g]) \cap delivered = {}

\* C8 witness: the sink answered at least one batch with a transport error
\* and marked no record as failed, and every accepted record is delivered:
\* the records put back after the error were delivered by a later send.
C8_Witness ==
    /\ sinkErrored
    /\ ~sinkMarked
    /\ accepted # {}
    /\ delivered = accepted

\* C9: after a response that marks a subset of the batch as failed, the buffer
\* holds, of the batch, exactly the marked records; the unmarked ones are
\* gone from it (delivered); send returns the number of unmarked records.
C9_PartialFailureRequeuesFailed ==
    \A g \in Callers :
        (sendPc[g] = "ret" /\ ~response[g].err /\ response[g].FailedPutCount > 0) =>
            /\ Ids(recordsBuff) \cap Ids(records[g]) = MarkedFailed(g)
            /\ Ids(records[g]) \ MarkedFailed(g) \subseteq delivered
            /\ sent[g] = Len(records[g]) - Cardinality(MarkedFailed(g))
            /\ (Cardinality(MarkedFailed(g)) = Len(records[g]) => sent[g] = 0)

\* C9 witness: a send returns 1 for a batch of two records of which the sink
\* marked one as failed.
C9_Witness ==
    \E g \in Callers :
        /\ sendPc[g] = "ret"
        /\ ~response[g].err
        /\ response[g].FailedPutCount = 1
        /\ Len(records[g]) = 2
        /\ sent[g] = 1

\* What caller g's send has to put back: the whole batch after a transport
\* error, the marked records otherwise.
PutBack(g) ==
    IF response[g].err THEN records[g]
    ELSE SelectSeq(records[g], LAMBDA r : r.id \in MarkedFailed(g))

\* C10: the records that send puts back after a transport error or a partial
\* failure are at the head of the buffer, ahead of every record that is in the
\* buffer when they are reinserted.
C10_RequeuedAtHead ==
    \A g \in Callers :
        (sendPc[g] = "ret" /\ Refused(response[g])) =>
            SubSeq(recordsBuff, 1, Len(PutBack(g))) = PutBack(g)


\* C2: Close, once it holds a buffer of K records (0 < K < MaxBatchSize) and
\* the sink accepts every batch, returns nil with all K records delivered and
\* the buffer empty; no tick is needed.
C2_CloseDrainsBuffer ==
    (/\ closePc = "loop"
     /\ Len(recordsBuff) > 0
     /\ Len(recordsBuff) < MaxBatchSize)
        ~> (\/ sinkRefused
            \/ /\ closePc = "done"
               /\ closeRet = "nil"
               /\ recordsBuff = <<>>)

\* C3: when Close returns and the sink accepted every batch, every record
\* whose Write returned before Close was invoked has been delivered.
C3_CloseDeliversWritten ==
    (closePc = "done" /\ ~sinkRefused) => preClose \subseteq delivered

\* C4: while a send is inside PutRecordBatch, a Write that is handing over an
\* in-limit record on the open stream can complete without that call
\* returning: the channel has room, or listenRecordStream is free to make room.
C4_WriteNeverWaitsForSink ==
    \A p \in Producers :
        (/\ writePc[p] = "chsend"
         /\ ~streamClosed
         /\ \E g \in Callers : sendPc[g] = "put")
            => (ENABLED WriteSend(p) \/ listenPc = "recv")

\* C5: every batch that send passes to PutRecordBatch has a cumulative payload
\* size of at most MAX_RECORDS_BYTE_LENGTH (the buffer holds in-limit records
\* only).
C5_BatchWithinByteLimit ==
    \A g \in Callers :
        sendPc[g] = "put" => ByteLength(records[g]) <= MAX_RECORDS_BYTE_LENGTH

RECURSIVE FitPrefix(_)
\* The candidate set with records removed from its end until it fits the
\* batch byte ceiling.
FitPrefix(cand) ==
    IF ByteLength(cand) > MAX_RECORDS_BYTE_LENGTH
    THEN FitPrefix(SubSeq(cand, 1, Len(cand) - 1))
    ELSE cand

\* C6: when the candidate set of a send exceeds the byte ceiling, send removes
\* records from its end until it fits, passes only the remaining records to
\* the sink and leaves every removed record in the buffer.
C6_TrimLeavesRemovedInBuffer ==
    [][\A g \in Callers :
          (sendPc[g] = "lock" /\ sendPc'[g] = "put") =>
             LET cand == SubSeq(recordsBuff, 1,
                                Min(Len(recordsBuff), MaxBatchSize))
             IN /\ records'[g] = FitPrefix(cand)
                /\ Ids(cand) \ Ids(FitPrefix(cand)) \subseteq Ids(recordsBuff')]_vars


\* The place of record id in the batch s.
Pos(s, id) == CHOOSE i \in 1..Len(s) : s[i].id = id

\* Record a, put back by a flush that began at Write number mark, keeps its
\* place ahead of the records written after that: none of them is delivered
\* while a is not, and in a batch that holds a and one of them a comes first.
AheadOfLater(a, mark) ==
    \A b \in (mark..MaxWrites) \cap accepted :
        /\ b \notin delivered
        /\ \A g \in Callers :
              (sendPc[g] = "put" /\ {a, b} \subseteq Ids(records[g]))
                  => Pos(records[g], a) < Pos(records[g], b)

C12_SendOnEmptyIsNoOp ==
    [][\A g \in Callers :
          /\ (sendPc[g] = "lock" /\ sendPc'[g] # "lock" /\ recordsBuff = <<>>)
                => /\ sendPc'[g] = "ret"
                   /\ sent'[g] = 0
                   /\ records'[g] = <<>>
                   /\ recordsBuff' = <<>>
                   /\ delivered' = delivered
          /\ (sendPc[g] = "ret" /\ records[g] = <<>> /\ sendPc'[g] = "idle")
                => /\ sent[g] = 0
                   /\ recordsBuff' = recordsBuff
                   /\ delivered' = delivered]_vars

\* C12 witness: a send returns 0 from a buffer that an earlier send has
\* drained, while another send is waiting to do the same.
C12_Witness ==
    \E g \in Callers, h \in Callers :
        /\ sendPc[g] = "ret"
        /\ records[g] = <<>>
        /\ sent[g] = 0
        /\ recordsBuff = <<>>
        /\ delivered # {}
        /\ sendPc[h] = "lock"

\* C13: a Write of a payload of at most MAX_LOG_BYTE_LENGTH bytes that returns
\* returns n = len(payload) and a nil error, whatever the sink has answered
\* and whatever send is in progress (so the bytes reported over a sequence of
\* such Writes add up to the bytes written); on an open stream it ends in no
\* other way.
C13_WriteReportsFullLength ==
    [][\A p \in Producers :
          /\ (writePc[p] = "chsend" /\ writePc'[p] = "idle")
                => /\ writeRec[p].len <= MAX_LOG_BYTE_LENGTH
                   /\ writeRet'[p] = [n |-> writeRec[p].len, err |-> "nil"]
          /\ (writePc[p] = "chsend" /\ writePc'[p] \notin {"chsend", "idle"})
                => streamClosed]_vars

\* C13 witness: every Write of the run has returned its full length and nil,
\* although the sink has refused a batch and a send is inside PutRecordBatch.
C13_Witness ==
    /\ nextId - 1 = MaxWrites
    /\ \E p \in Producers :
          writeRet[p] = [n |-> MAX_LOG_BYTE_LENGTH, err |-> "nil"]
    /\ sinkRefused
    /\ \E g \in Callers : sendPc[g] = "put"

\* Every record the stream holds: in the hands of a Write, in the channel, in
\* the hand of listenRecordStream, in the buffer and in the batches of the
\* sends.
Held ==
    {writeRec[p] : p \in {q \in Producers : writePc[q] = "chsend"}}
    \cup {recordStream[i] : i \in 1..Len(recordStream)}
    \cup (IF listenPc = "lock" THEN {listenRec} ELSE {})
    \cup {recordsBuff[i] : i \in 1..Len(recordsBuff)}
    \cup UNION {{records[g][i] : i \in 1..Len(records[g])} : g \in Callers}

\* C14: a payload longer than MAX_LOG_BYTE_LENGTH is never enqueued, never
\* buffered and never part of a batch, and its Write returns its full length
\* and a nil error at once; only such a payload is dropped, so one of exactly
\* MAX_LOG_BYTE_LENGTH bytes is handed to the channel.
C14_OversizedNeverEnqueued ==
    /\ [](\A r \in Held : r.len <= MAX_LOG_BYTE_LENGTH)
    /\ [][\A p \in Producers :
             (/\ writePc[p] = "idle"
              /\ writePc'[p] = "idle"
              /\ writeRet'[p] # writeRet[p])
                 => /\ writeRet'[p].n > MAX_LOG_BYTE_LENGTH
                    /\ writeRet'[p].err = "nil"
                    /\ recordStream' = recordStream
                    /\ recordsBuff' = recordsBuff
                    /\ accepted' = accepted]_vars

\* C14 witness: the last Write, of MAX_LOG_BYTE_LENGTH + 1 bytes, returned its
\* length and nil; records of exactly MAX_LOG_BYTE_LENGTH bytes are in the
\* buffer and have been delivered.
C14_Witness ==
    /\ \E p \in Producers :
          writeRet[p] = [n |-> MAX_LOG_BYTE_LENGTH + 1, err |-> "nil"]
    /\ \E i \in 1..Len(recordsBuff) : recordsBuff[i].len = MAX_LOG_BYTE_LENGTH
    /\ delivered # {}

\* C15: with a ticker that does not fire and a sink that answers, an append
\* that brings the buffer to MaxBatchSize records or more starts a send, and
\* from a buffer of MaxBatchSize records or more (no batch refused so far) a
\* PutRecordBatch call follows that carries between 1 and MaxBatchSize
\* records.
C15_CapacityTriggersFlush ==
    /\ [][(/\ listenPc = "lock"
           /\ listenPc' = "recv"
           /\ Len(recordsBuff') >= MaxBatchSize)
              => \E g \in Senders :
                    sendPc[g] = "idle" /\ sendPc'[g] = "lock"]_vars
    /\ (Len(recordsBuff) >= MaxBatchSize /\ ~sinkRefused)
          ~> (\E g \in Senders :
                 /\ sendPc[g] = "put"
                 /\ Len(records[g]) >= 1
                 /\ Len(records[g]) <= MaxBatchSize)

\* C15 witness: without any tick, a send started by the capacity check is
\* inside PutRecordBatch with a batch of MaxBatchSize records.
C15_Witness ==
    /\ ~sinkRefused
    /\ delivered = {}
    /\ \E g \in Senders :
          sendPc[g] = "put" /\ Len(records[g]) = MaxBatchSize

\* C16: on the open stream with a ticker that keeps firing, a record that is
\* in a buffer of fewer than MaxBatchSize records is eventually delivered,
\* unless the sink refuses a batch.
C16_TickerDeliversTrickle ==
    \A id \in 1..MaxWrites :
        (id \in Ids(recordsBuff) /\ Len(recordsBuff) < MaxBatchSize)
            ~> (id \in delivered \/ sinkRefused)

\* C16 witness: the only record written so far, one fewer than MaxBatchSize,
\* has been delivered: the send that took it was started by a tick.
C16_Witness ==
    /\ nextId = MaxBatchSize
    /\ accepted # {}
    /\ delivered = accepted
    /\ ~sinkRefused

\* C17: whatever the sink answers, a Write that returns and a Close that
\* returns return a nil error; the records of a refused batch are only put
\* back into the buffer for a later send.
C17_DeliveryErrorsNotSurfaced ==
    /\ \A p \in Producers : writeRet[p].err \in {"none", "nil"}
    /\ closeRet \in {"none", "nil"}
    /\ \A g \in Callers :
          (sendPc[g] = "ret" /\ Refused(response[g]))
              => Ids(PutBack(g)) \subseteq Ids(recordsBuff)

\* C17 witness: the sink has answered with a transport error and with a
\* partial failure, a later Write has returned nil and Close has returned nil.
C17_Witness ==
    /\ sinkErrored
    /\ sinkMarked
    /\ closeRet = "nil"
    /\ nextId - 1 = MaxWrites
    /\ \E p \in Producers : writeRet[p].err = "nil"

\* C18: getSlogLevel maps trace, debug, info, warn and error to -8, -4, 0, 4
\* and 8, "critical" to levelFatal (12) and "fatal" to levelCritical (16)
\* without error, and answers every other name with the error "unknown
\* level".
C18_GetSlogLevelTable ==
    LET name == lastLog.name
        ret == lastLog.ret
    IN name # "" =>
          CASE name = "trace" -> ret = [level |-> -8, err |-> "nil"]
            [] name = "debug" -> ret = [level |-> -4, err |-> "nil"]
            [] name = "info" -> ret = [level |-> 0, err |-> "nil"]
            [] name = "warn" -> ret = [level |-> 4, err |-> "nil"]
            [] name = "error" -> ret = [level |-> 8, err |-> "nil"]
            [] name = "critical" -> ret = [level |-> 12, err |-> "nil"]
            [] name = "fatal" -> ret = [level |-> 16, err |-> "nil"]
            [] OTHER -> ret.err = "unknown level"

\* C18 witness: Log was called with "critical" and getSlogLevel answered
\* levelFatal.
C18_Witness ==
    /\ lastLog.name = "critical"
    /\ lastLog.ret = [level |-> levelFatal, err |-> "nil"]

\* C19: ClearLogContext sets the context logger back to the base logger,
\* whatever AddLogContext calls preceded it, and a record logged while the
\* context is clear carries the base attributes only; the base logger, and
\* every copy of it that GetBaseLogger returned, never changes.
C19_ClearRestoresBaseLogger ==
    /\ [](logger = <<BaseAttrs>>)
    /\ [](gotBase \in {<<>>, <<BaseAttrs>>})
    /\ [][\A t \in CtxThreads :
             (ctxPc[t] = "clearStore" /\ ctxPc'[t] = "clearUnlock")
                 => contextLogger' = logger]_vars
    /\ [][(/\ lastLog' # lastLog
           /\ contextLogger = logger
           /\ lastLog'.record # <<>>)
              => lastLog'.record = <<BaseAttrs>>]_vars

\* C19 witness: a ClearLogContext has just reset the context logger after a
\* record was logged with two added attribute groups, and GetBaseLogger has
\* returned the base logger.
C19_Witness ==
    /\ \E t \in CtxThreads : ctxPc[t] = "clearUnlock"
    /\ contextLogger = logger
    /\ Len(lastLog.record) = 3
    /\ gotBase = <<BaseAttrs>>

\* The goroutines inside the critical section of the fence.
InFence ==
    {t \in CtxThreads :
        ctxPc[t] \in {"addWith", "addStore", "addUnlock", "clearStore",
                      "clearUnlock"}}

\* C20: AddLogContext and ClearLogContext exclude each other, and no update
\* is lost: the context logger carries, over the base attributes, the
\* attributes of every AddLogContext stored since the last clear.
C20_ContextSwitchAtomic ==
    /\ Cardinality(InFence) <= 1
    /\ contextLogger = logger \o added

\* C20 witness: two goroutines have called AddLogContext, one with a and one
\* with b; the second is about to release the fence and the context logger
\* carries both.
C20_Witness ==
    /\ \E t \in CtxThreads : ctxPc[t] = "addUnlock"
    /\ contextLogger \in {<<BaseAttrs, {"a"}, {"b"}>>,
                           <<BaseAttrs, {"b"}, {"a"}>>}

\* C21: no caller of send holds the buffer mutex when it calls send, so no
\* goroutine waits in send for a mutex it holds itself (and Close with a
\* non-empty buffer does not block on its own lock).
C21_SendCalledWithoutMutex ==
    \A g \in Callers : sendPc[g] = "lock" => mu # g

\* The sends that have drained their candidate set and have not put back
\* what the sink refused.
Draining == {g \in Callers : sendPc[g] = "put"}

\* C22: at most one send is between draining its candidate set and finishing
\* its requeue, and the buffer does not change inside that interval: the step
\* that ends the interval leaves the buffer as the drain left it, followed by
\* records of the batch only; no append of listenRecordStream falls inside.
C22_FlushIsOneCriticalSection ==
    /\ [](Cardinality(Draining) <= 1)
    /\ [](\A g \in Draining : mu = g)
    /\ [][\A g \in Draining :
             /\ sendPc'[g] = "put" => recordsBuff' = recordsBuff
             /\ sendPc'[g] # "put" =>
                   /\ SubSeq(recordsBuff', 1, Len(recordsBuff)) = recordsBuff
                   /\ Ids(recordsBuff') \ Ids(recordsBuff) \subseteq Ids(records[g])
             /\ ~(listenPc = "lock" /\ listenPc' = "recv")]_vars

\* C22 witness: a send is inside PutRecordBatch while listenRecordStream holds
\* a record to append and another send waits for the mutex.
C22_Witness ==
    /\ Draining # {}
    /\ listenPc = "lock"
    /\ \E h \in Senders : sendPc[h] = "lock"

\* C23: no PutRecordBatch call is in flight while the buffer mutex, which the
\* append path of listenRecordStream needs, is held.
C23_NoSinkCallUnderMutex ==
    (\E g \in Callers : sendPc[g] = "put") => mu = Free

\* C24: once Close holds the stream (ticker stopped, channel closed) it
\* returns, whatever the sink answers to its deliveries: it does not loop or
\* block forever.
C24_CloseTerminates ==
    (closePc = "loop") ~> (closePc = "done")

\* Close is in its drain loop or past it.
CloseDraining == closePc \in {"loop", "send", "done"}

\* C25: Close stops the ticker before its first drain flush, and no send
\* started by a tick holds the buffer (drains, delivers, returns) while Close
\* is in its drain loop or after it, the sends dispatched before the ticker
\* was stopped included.
C25_NoTickerSendAfterStop ==
    /\ CloseDraining => tickerStopped
    /\ \A g \in Senders :
          (CloseDraining /\ spawnedBy[g] = "ticker")
              => sendPc[g] \notin {"put", "ret"}

\* C26: the buffer holds records of at most MAX_LOG_BYTE_LENGTH bytes, which
\* is below MAX_RECORDS_BYTE_LENGTH, and the trimming loop never leaves an
\* empty batch: a send that finds the buffer non-empty (MaxBatchSize >= 1)
\* goes on to PutRecordBatch with at least one record, and the return inside
\* the trimming loop is not taken.
C26_TrimNeverEmpties ==
    /\ [](MAX_LOG_BYTE_LENGTH < MAX_RECORDS_BYTE_LENGTH)
    /\ [](\A i \in 1..Len(recordsBuff) :
             recordsBuff[i].len <= MAX_LOG_BYTE_LENGTH)
    /\ [][\A g \in Callers :
             (/\ sendPc[g] = "lock"
              /\ sendPc'[g] # "lock"
              /\ recordsBuff # <<>>
              /\ MaxBatchSize >= 1)
                 => LET cand == Candidate(recordsBuff, MaxBatchSize)
                    IN /\ ~TrimLoop(cand, ByteLength(cand)).returned
                       /\ sendPc'[g] = "put"
                       /\ Len(records'[g]) >= 1]_vars

\* C26 witness: a send whose candidate set of MaxBatchSize records exceeded
\* MAX_RECORDS_BYTE_LENGTH, so that the trimming loop ran, is inside
\* PutRecordBatch with a batch that is not empty.
C26_Witness ==
    \E g \in Callers :
        /\ sendPc[g] = "put"
        /\ Len(records[g]) = MaxBatchSize
        /\ MaxBatchSize * MAX_LOG_BYTE_LENGTH > MAX_RECORDS_BYTE_LENGTH
        /\ \A i \in 1..Len(records[g]) : records[g][i].len = MAX_LOG_BYTE_LENGTH

\* The ids of a batch are in the order of the appends (ids grow with the
\* appends as long as nothing has been put back).
Ascending(s) == \A i \in 1..Len(s), j \in 1..Len(s) : i < j => s[i].id < s[j].id

\* C27: as long as the sink has accepted every record, every batch passed to
\* PutRecordBatch lists its records in the order in which they were appended
\* and holds only records appended after all those delivered before, also
\* when the candidate set exceeded the byte ceiling and was trimmed.
C27_DeliveredOldestFirst ==
    \A g \in Callers :
        (sendPc[g] = "put" /\ ~sinkRefused) =>
            /\ Ascending(records[g])
            /\ \A d \in delivered, i \in 1..Len(records[g]) :
                  d < records[g][i].id

\* The records handed to the record channel that have not entered the buffer,
\* in the order in which listenRecordStream appends them.
Handed == (IF listenPc = "lock" THEN <<listenRec>> ELSE <<>>) \o recordStream

\* C28: in the channel-based stream the records enter the buffer in the order
\* in which their Writes handed them to the channel (ids are given in that
\* order): the records still to be appended wait in that order behind every
\* record that has entered, each append puts its record at the tail, and as
\* long as nothing has been put back the buffer lists its records in that
\* order.
C28_BufferInHandoverOrder ==
    /\ [](Ascending(Handed))
    /\ [](\A i \in 1..Len(Handed), id \in Ids(recordsBuff) \cup InFlight :
             id < Handed[i].id)
    /\ [](~sinkRefused => Ascending(recordsBuff))
    /\ [][(listenPc = "lock" /\ listenPc' = "recv")
             => recordsBuff' = Append(recordsBuff, listenRec)]_vars

\* C28 witness: two records are in the buffer in the order of their Writes,
\* the third is in the hand of listenRecordStream and the fourth is in the
\* channel; nothing has been put back.
C28_Witness ==
    /\ ~sinkRefused
    /\ Len(recordsBuff) = 2
    /\ recordsBuff[1].id < recordsBuff[2].id
    /\ listenPc = "lock"
    /\ recordStream # <<>>

\* C29: in the goroutine-per-write stream, of two records that are in the
\* buffer (nothing put back so far) the one whose Write returned first is
\* ahead of the other, under every scheduling of the append goroutines.
C29_BufferInArrivalOrder ==
    ~sinkRefused =>
        \A a \in Ids(recordsBuff), b \in Ids(recordsBuff) :
            a < b => Pos(recordsBuff, a) < Pos(recordsBuff, b)

\* C30: the payload of every record passed to PutRecordBatch is the bytes its
\* Write was called with, whatever the caller has done to its slice since the
\* Write returned: the record holds an array of its own.
C30_RecordIsCopy ==
    /\ \A id \in accepted : mem[Data[id]] = wrote[id]
    /\ \A g \in Callers :
          sendPc[g] = "put" =>
             \A i \in 1..Len(records[g]) :
                 Payload(records[g][i]) = wrote[records[g][i].id]

\* C30 witness: a record written as "x" is in a batch passed to
\* PutRecordBatch, with its payload "x", after the caller has overwritten its
\* slice with "y".
C30_Witness ==
    \E g \in Callers, p \in Producers :
        /\ sendPc[g] = "put"
        /\ mem[Buf(p)] = "y"
        /\ \E i \in 1..Len(records[g]) :
              /\ wrote[records[g][i].id] = "x"
              /\ Payload(records[g][i]) = "x"

\* C31: once Close has returned the stream is terminal: the ticker is
\* stopped, the buffer is and stays empty and no PutRecordBatch call is in
\* progress, so that no send dispatched earlier and no late append from the
\* record channel delivers or strands a record.
C31_ClosedIsTerminal ==
    closePc = "done" =>
        /\ tickerStopped
        /\ recordsBuff = <<>>
        /\ \A g \in Callers : sendPc[g] # "put"

\* C32: the records that a send puts back after a partial failure stand in
\* the buffer in the relative order they had in the buffer before the send
\* drained them (for a send on a buffer into which nothing had been put back,
\* that is the order of their ids).
C32_RequeuedKeepOrder ==
    [][\A g \in Callers :
          (/\ sendPc[g] = "put"
           /\ sendPc'[g] = "ret"
           /\ ~sinkRefused
           /\ ~response'[g].err
           /\ response'[g].FailedPutCount > 0)
              => Ascending(SubSeq(recordsBuff', Len(recordsBuff) + 1,
                                  Len(recordsBuff')))]_vars

\* The records waiting for a send: in the channel, in the hand of the
\* listener and in the buffer.
Waiting == Handed \o recordsBuff

RECURSIVE InBatches(_)
\* The ids of the records in the batches of the senders of S that are inside
\* PutRecordBatch, with their multiplicity.
InBatches(S) ==
    IF S = {} THEN <<>>
    ELSE LET g == CHOOSE h \in S : TRUE
         IN (IF sendPc[g] = "put" THEN [i \in 1..Len(records[g]) |-> records[g][i].id]
             ELSE <<>>) \o InBatches(S \ {g})

\* No value occurs twice in s.
NoRepeat(s) == \A i \in 1..Len(s), j \in 1..Len(s) : s[i] = s[j] => i = j

\* C33: whatever the sink answers (success, transport error, partial
\* failure), no record occurs twice among the channel, the buffer and the
\* batches being delivered; a record the sink reported delivered is in none
\* of them, and no PutRecordBatch response reports a record delivered that
\* was reported delivered before.
C33_NoRecordDuplicated ==
    /\ [](NoRepeat([i \in 1..Len(Waiting) |-> Waiting[i].id]
                    \o InBatches(Callers)))
    /\ [](delivered \cap Pending = {})
    /\ [][\A g \in Callers :
             (sendPc[g] = "put" /\ sendPc'[g] = "ret")
                 => /\ Delivered(records[g], response'[g]) \cap delivered = {}
                    /\ Ids(Requeued(records[g], response'[g])) \cap delivered' = {}
                    /\ NoRepeat(recordsBuff')]_vars

\* C33 witness: after a transport error and a partial failure the buffer
\* holds two records that were put back, while other records are delivered
\* and no send is in progress.
C33_Witness ==
    /\ sinkErrored
    /\ sinkMarked
    /\ Len(recordsBuff) = 2
    /\ delivered # {}
    /\ \A g \in Callers : sendPc[g] = "idle"
    /\ recordStream = <<>>
    /\ listenPc = "recv"
    /\ nextId - 1 = MaxWrites

\* The batch s after its last k records were moved to its front one by one.
Turned(s, k) == SubSeq(s, Len(s) - k + 1, Len(s)) \o SubSeq(s, 1, Len(s) - k)

\* C34: on every candidate set the trimming loop of send ends after at most
\* len(candidate) turns, and the send that ran it goes on to the delivery
\* call, with the batch those turns left, or returns.
C34_TrimLoopTerminates ==
    [][\A g \in Callers :
          (sendPc[g] = "lock" /\ sendPc'[g] # "lock" /\ recordsBuff # <<>>) =>
             LET cand == Candidate(recordsBuff, MaxBatchSize)
                 turns == TrimTurns(cand, ByteLength(cand), Len(cand))
             IN /\ turns <= Len(cand)
                /\ sendPc'[g] \in {"put", "ret"}
                /\ records'[g] = Turned(cand, turns)]_vars

\* C34 witness: a send whose trimming loop took a turn is inside
\* PutRecordBatch: the last record of its candidate set is the first of its
\* batch.
C34_Witness ==
    \E g \in Callers :
        /\ sendPc[g] = "put"
        /\ Len(records[g]) >= 2
        /\ \A i \in 2..Len(records[g]) : records[g][1].id > records[g][i].id
        /\ ~sinkRefused

\* C35: once Close has closed the record channel, a Write of an in-limit
\* record ends in a panic: it does not return, its record enters neither the
\* channel nor the buffer and is not accepted; a Write of an oversized
\* payload still returns its length and nil.
C35_WriteAfterClosePanics ==
    /\ [](\A p \in Producers : writePc[p] = "panic" => streamClosed)
    /\ [][\A p \in Producers :
             /\ (writePc[p] = "chsend" /\ streamClosed /\ writePc'[p] # "chsend")
                   => /\ writePc'[p] = "panic"
                      /\ writeRet'[p] = writeRet[p]
                      /\ recordStream' = recordStream
                      /\ recordsBuff' = recordsBuff
                      /\ accepted' = accepted
             /\ (writePc[p] = "panic") => writePc'[p] = "panic"
             /\ (/\ writePc[p] = "idle"
                 /\ streamClosed
                 /\ writePc'[p] = "idle"
                 /\ writeRet'[p] # writeRet[p])
                   => /\ writeRet'[p].n > MAX_LOG_BYTE_LENGTH
                      /\ writeRet'[p].err = "nil"]_vars

\* C35 witness: Close has returned, a Write of an in-limit record has ended
\* in a panic on the closed channel without a return value, and no record is
\* in the channel, in the buffer or in a batch.
C35_Witness ==
    /\ closeRet = "nil"
    /\ \E p \in Producers : writePc[p] = "panic" /\ writeRet[p].err = "none"
    /\ Written < MaxWrites
    /\ Pending = {}

\* C36: GracefulShutdown sets the shutting-down flag before it calls
\* s.Shutdown, cancels the base context of the requests only after Shutdown
\* has returned, and main calls Close on the log output stream only after
\* GracefulShutdown has returned.
C36_ShutdownOrder ==
    /\ [](ShutdownCalled => isShuttingDown)
    /\ [](ongoingCtx = "done" => ShutdownReturned)
    /\ [](outStreamClosed => GracefulReturned /\ ongoingCtx = "done")
    /\ [][/\ isShuttingDown' # isShuttingDown => ~ShutdownCalled'
          /\ ongoingCtx' # ongoingCtx => ShutdownReturned
          /\ outStreamClosed' # outStreamClosed => GracefulReturned]_vars

\* C36 witness: Shutdown ran into its deadline with a request still being
\* served, the base context was cancelled afterwards, and main has closed the
\* output stream.
C36_Witness ==
    /\ isShuttingDown
    /\ shutdownErr
    /\ ongoingCtx = "done"
    /\ outStreamClosed
    /\ mainPc = "exit"

\* C37: when main calls Close on the log output stream, the "HTTP Request
\* finished" record of every request has been written to it; no such record
\* is written, or is still to be written, afterwards.
C37_FinishedWrittenBeforeClose ==
    outStreamClosed =>
        \A r \in Requests : afterPc[r] # "none" => finishedAt[r] = "open"

\* C38: for each of the seven level names, the record Log emits carries the
\* upper-cased name as its level label: Fatal() emits FATAL and Critical()
\* emits CRITICAL.
C38_LabelIsUpperCasedName ==
    LET upper == [n \in LevelNames |->
                    CASE n = "trace" -> "TRACE"
                      [] n = "debug" -> "DEBUG"
                      [] n = "info" -> "INFO"
                      [] n = "warn" -> "WARN"
                      [] n = "error" -> "ERROR"
                      [] n = "fatal" -> "FATAL"
                      [] n = "critical" -> "CRITICAL"]
    IN lastLog.record # <<>> => lastLog.label = upper[lastLog.name]

====
